---------------------------- MODULE Spec2Model ----------------------------
(***************************************************************************)
(* Model of the Egide seal manager (egide-seal/src/lib.rs): the lifecycle  *)
(* Uninitialized -> Sealed <-> Unsealed, Shamir custody of the master key, *)
(* HMAC-verified reconstruction, developer mode and the persisted seal     *)
(* records in system.db.                                                   *)
(*                                                                         *)
(* Scaling.  The master key is KEY_SIZE bytes; the model keeps the byte    *)
(* structure (a key is a sequence of bytes, a share is the index byte      *)
(* followed by one byte per key byte) but scales KEY_SIZE to 1.  The       *)
(* Shamir library works bytewise over GF(256); the model does the same     *)
(* Lagrange arithmetic over the prime field of FieldOrder elements.        *)
(* HMAC-SHA256 and Argon2id are modelled as injective tagging functions.   *)
(* The random draws of initialize and enable_dev_mode (key, polynomial     *)
(* coefficients, token) are parameters of the actions, taken from small    *)
(* sets; the shares a caller submits range over every well-formed share of *)
(* the field, so shares of any other vault are among them.                 *)
(*                                                                         *)
(* The secrets engine (egide-secrets/src/lib.rs) is modelled by its two    *)
(* tables, secrets and secret_versions, and a clock in seconds; every      *)
(* storage call is one atomic step, as each statement commits on its own.  *)
(* SpecSecrets runs whole calls one after another, SpecPuts interleaves the*)
(* storage calls of two concurrent put callers.  AES-GCM is modelled as a  *)
(* record of key, associated data and plaintext that decrypts only under   *)
(* the same key and associated data.  u64 is scaled to U64_BITS bits.      *)
(*                                                                         *)
(* The server (egide-server/src/main.rs) is modelled by the process (main  *)
(* and shutdown), the engine slot of AppState and the handlers; a handler  *)
(* that takes the seal lock and then the secrets lock is two steps         *)
(* (SpecServer).  AuthService::validate is modelled turn by turn of its    *)
(* loop over the backends, each backend by the result its validate gives   *)
(* for the token presented (SpecAuth).                                     *)
(*                                                                         *)
(* The transit engine (egide-transit/src/lib.rs) is modelled by its two    *)
(* tables, transit_keys and transit_key_versions.  SpecTransit runs whole  *)
(* calls on one key, SpecTransitKeys on two keys, SpecRotations            *)
(* interleaves the storage calls of two concurrent rotate_key callers.     *)
(* A ciphertext is the text egide:v<version>:<base64>, kept as a sequence  *)
(* of characters with the base64 part as one token; the version label is   *)
(* printed and parsed digit by digit.  u32 is scaled to U32_BITS bits.     *)
(* SpecPaths submits every path up to MaxLen characters to the secrets     *)
(* engine.                                                                 *)
(*                                                                         *)
(* Calls that stop part-way.  SpecInterrupted lets a put stop at the await *)
(* between its two storage statements, SpecCreations does the same for     *)
(* create_key and rotate_key, run statement by statement, and              *)
(* SpecInitFault lets one of the storage.put calls of initialize fail.     *)
(* SpecRacing interleaves two put callers that pass no cas.                *)
(*                                                                         *)
(* The two RwLocks of AppState are modelled by their holders and their     *)
(* queue of waiters, served in order; a handler is the sequence of its     *)
(* acquisitions and releases (SpecLocks).  SpecLocksFair adds weak         *)
(* fairness of every handler step and of every grant: the runtime polls a  *)
(* task that can run, and storage calls return.                            *)
(***************************************************************************)
EXTENDS Integers, Sequences, FiniteSets, TLC

\* ------------------------------------------------------------------ bounds

\* Largest number of shares a caller asks initialize for.
MaxShares == 3

\* Largest threshold a caller asks initialize for.
MaxThreshold == 2

\* Most shares left in pending_shares when a further share is submitted.
MaxPending == 2

\* ------------------------------------------------------------ option type

None == [some |-> FALSE]

Some(val) == [some |-> TRUE, v |-> val]

\* ------------------------------------------------------- field arithmetic

\* Order of the share field (GF(256) in the library, a prime field here).
FieldOrder == 5

Field == 0 .. (FieldOrder - 1)

FAdd(a, b) == (a + b) % FieldOrder

FSub(a, b) == (a + FieldOrder - b) % FieldOrder

FMul(a, b) == (a * b) % FieldOrder

FInv(a) == CHOOSE b \in Field : FMul(a, b) = 1

FDiv(a, b) == IF a = 0 THEN 0 ELSE FMul(a, FInv(b))

\* ------------------------------------------------------------ master key

\* Length of a master key in bytes (32 in the source, scaled).
KEY_SIZE == 1

\* All byte strings of the length of a master key.
MasterKeys == [1 .. KEY_SIZE -> Field]

\* MasterKey::generate draws KEY_SIZE bytes from the CSPRNG; the draws explored.
KeyDraws == [1 .. KEY_SIZE -> {1, 3}]

\* MasterKey::from_bytes: accepts exactly KEY_SIZE bytes.
MasterKeyFromBytes(bytes) ==
    IF Len(bytes) # KEY_SIZE THEN None ELSE Some(bytes)

\* compute_master_key_hmac: HMAC-SHA256 keyed by the key over the fixed tag.
SEAL_VERIFY_TAG == "egide-seal-verify-v1"

compute_master_key_hmac(key) == <<SEAL_VERIFY_TAG, key>>

\* --------------------------------------------------------------- tokens

\* The tokens a caller can present.
Tokens == {"tokA", "tokB"}

\* generate_token draws a random token; the draws explored.
TokenDraws == {"tokA"}

\* hash_token: Argon2id of the token (the salt does not affect verification).
hash_token(token) == <<"argon2id", token>>

\* verify_token: does the token hash to the stored hash.
verify_token(token, hash) == hash = hash_token(token)

\* ------------------------------------------------------- Shamir (blahaj)

\* Share::try_from(&[u8]): at least two bytes, the first is x.
SharkTryFrom(data) ==
    IF Len(data) < 2 THEN None
    ELSE Some([x |-> data[1], y |-> Tail(data)])

\* Vec<u8>::from(&Share): x followed by the y bytes.
SharkBytes(ss) == <<ss.x>> \o ss.y

RECURSIVE EvalPoly(_, _)
\* Horner evaluation of the polynomial with coefficients cs (constant first).
EvalPoly(cs, x) ==
    IF cs = <<>> THEN 0
    ELSE FAdd(Head(cs), FMul(x, EvalPoly(Tail(cs), x)))

\* Sharks(k).dealer(secret).take(n): share x = 1..n of one random polynomial
\* per secret byte, whose constant term is that byte.
Deal(secret, polys, n) ==
    [x \in 1 .. n |->
        [x |-> x,
         y |-> [b \in 1 .. Len(secret) |-> EvalPoly(<<secret[b]>> \o polys[b], x)]]]

\* The random non-constant coefficients of a dealer with threshold k (nonzero
\* field elements); the draws explored.
Polys(k) == [1 .. KEY_SIZE -> [1 .. (k - 1) -> {1, 2}]]

RECURSIVE LagrangeBasis(_, _, _)
\* Product over the shares j >= from with x_j # x_i of x_j / (x_j - x_i).
LagrangeBasis(shares, i, from) ==
    IF from > Len(shares) THEN 1
    ELSE IF shares[from].x = shares[i].x THEN LagrangeBasis(shares, i, from + 1)
    ELSE FMul(FDiv(shares[from].x, FSub(shares[from].x, shares[i].x)),
              LagrangeBasis(shares, i, from + 1))

RECURSIVE InterpolateByte(_, _, _)
\* Sum over the shares i >= from of basis_i * y_i[b].
InterpolateByte(shares, b, from) ==
    IF from > Len(shares) THEN 0
    ELSE FAdd(FMul(LagrangeBasis(shares, from, 1), shares[from].y[b]),
              InterpolateByte(shares, b, from + 1))

\* math::interpolate: the value at 0, byte by byte.
Interpolate(shares) ==
    [b \in 1 .. Len(shares[1].y) |-> InterpolateByte(shares, b, 1)]

\* Sharks(k).recover(shares): all shares of one length, at least k distinct x.
Recover(k, shares) ==
    IF \E i \in 1 .. Len(shares) : Len(shares[i].y) # Len(shares[1].y) THEN None
    ELSE LET xs == {shares[i].x : i \in 1 .. Len(shares)}
         IN  IF xs = {} \/ Cardinality(xs) < k THEN None
             ELSE Some(Interpolate(shares))

\* ---------------------------------------------------------------- shares

\* The Share handed to a key holder: index = first byte of the data.
ToShare(ss) == [index |-> ss.x, data |-> SharkBytes(ss)]

\* ShamirConfig::validate.
Validate(cfg) ==
    IF cfg.threshold = 0 THEN "InvalidConfig"
    ELSE IF cfg.shares < cfg.threshold THEN "InvalidConfig"
    ELSE "Ok"

\* ----------------------------------------------------------------- state

VARIABLES
    mgr,        \* the SealManager's in-memory fields
    storage,    \* the persisted seal records (system.db)
    issued,     \* what the last successful initialize / enable_dev_mode generated
    last,       \* the last call made on the manager: operation, result, value of an Ok
    serving,    \* the server process is up (main reached axum::serve)
    secrets,    \* AppState.secrets, the slot of the secrets engine
    handlers,   \* the position of the seal / unseal handler between its two locks
    db,         \* the tables of the secrets engine (secrets, secret_versions)
    now,        \* the wall clock, in seconds (SecretsEngine::now)
    calls,      \* the put calls in flight on the engine, with their locals
    transit,    \* the tables of the transit engine (transit_keys, transit_key_versions)
    held,       \* the ciphertext a client of the transit engine holds
    rotations,  \* the rotate_key calls in flight, with their locals
    validation, \* the AuthService::validate call in flight, with its locals
    locks,      \* the two RwLocks of AppState (seal, secrets): holders and waiters
    tasks       \* the request handlers in flight, each with its position

\* The variables of the server process around the seal manager.
serverVars == <<serving, secrets, handlers>>

\* The variables of the secrets engine.
engineVars == <<db, now, calls>>

\* The variables of the transit engine.
transitVars == <<transit, held, rotations>>

\* The variables of the handlers' lock protocol.
lockVars == <<locks, tasks>>

vars == <<mgr, storage, issued, last, serving, secrets, handlers, db, now, calls,
          transit, held, rotations, validation, locks, tasks>>

\* system.db before anything was stored (mod keys).
EmptyStorage ==
    [root_token_hash |-> None, shamir_threshold |-> None, shamir_total |-> None,
     initialized_at |-> None, dev_mode_master_key |-> None, master_key_hmac |-> None]

\* The struct literal of SealManager::new, before load_status.
FreshManager ==
    [status |-> "Uninitialized", master_key |-> None, pending_shares |-> <<>>,
     pending_indices |-> {}, threshold |-> 0, dev_mode |-> FALSE,
     expected_hmac |-> None]

\* Mutant of load_status: the expected HMAC is not read back from storage.
Mut_load_status_NoExpectedHmac(m, st) ==
    IF ~st.initialized_at.some THEN m
    ELSE LET m1 == [m EXCEPT !.status = "Sealed",
                             !.threshold = IF st.shamir_threshold.some
                                           THEN st.shamir_threshold.v[1] ELSE @]
         IN  IF st.dev_mode_master_key.some
             THEN [m1 EXCEPT !.master_key = MasterKeyFromBytes(st.dev_mode_master_key.v),
                             !.status = "Unsealed",
                             !.dev_mode = TRUE]
             ELSE m1

\* SealManager::load_status.
load_status(m, st) ==
    IF ~st.initialized_at.some THEN m
    ELSE LET m1 == [m EXCEPT !.status = "Sealed",
                             !.threshold = IF st.shamir_threshold.some
                                           THEN st.shamir_threshold.v[1] ELSE @,
                             !.expected_hmac = st.master_key_hmac]
         IN  IF st.dev_mode_master_key.some
             THEN [m1 EXCEPT !.master_key = MasterKeyFromBytes(st.dev_mode_master_key.v),
                             !.status = "Unsealed",
                             !.dev_mode = TRUE]
             ELSE m1

\* SealManager::new: Err when the stored dev key is not a master key.
NewManager(st) ==
    IF st.initialized_at.some /\ st.dev_mode_master_key.some
       /\ ~MasterKeyFromBytes(st.dev_mode_master_key.v).some
    THEN None
    ELSE Some(load_status(FreshManager, st))

\* SealManager::status.
Status(m) == m.status

\* SealManager::master_key.
master_key(m) == m.master_key

\* The UnsealProgress built at the end of unseal.
UnsealProgress(m) ==
    [sealed |-> m.status = "Sealed", threshold |-> m.threshold,
     progress |-> Len(m.pending_shares)]

\* pending_shares.clear(); pending_indices.clear().
ClearPending(m) == [m EXCEPT !.pending_shares = <<>>, !.pending_indices = {}]

\* Mutant of initialize: the configuration is not validated.
Mut_initialize_NoValidate(m, st, cfg, key, polys, token) ==
    IF m.status # "Uninitialized"
    THEN [mgr |-> m, storage |-> st, res |-> "AlreadyInitialized", out |-> None]
    ELSE LET hmac   == compute_master_key_hmac(key)
             dealt  == Deal(key, polys, cfg.shares)
             shares == [i \in 1 .. cfg.shares |-> ToShare(dealt[i])]
         IN  [mgr |-> [m EXCEPT !.expected_hmac = Some(hmac),
                                !.status = "Sealed",
                                !.threshold = cfg.threshold],
              storage |-> [st EXCEPT !.root_token_hash = Some(hash_token(token)),
                                     !.shamir_threshold = Some(<<cfg.threshold>>),
                                     !.shamir_total = Some(<<cfg.shares>>),
                                     !.initialized_at = Some("now"),
                                     !.master_key_hmac = Some(hmac)],
              res |-> "Ok",
              out |-> Some([root_token |-> token, shares |-> shares])]

\* SealManager::initialize with the random draws (key, polynomials, token) made explicit.
initialize(m, st, cfg, key, polys, token) ==
    IF m.status # "Uninitialized"
    THEN [mgr |-> m, storage |-> st, res |-> "AlreadyInitialized", out |-> None]
    ELSE IF Validate(cfg) # "Ok"
    THEN [mgr |-> m, storage |-> st, res |-> "InvalidConfig", out |-> None]
    ELSE LET hmac   == compute_master_key_hmac(key)
             dealt  == Deal(key, polys, cfg.shares)
             shares == [i \in 1 .. cfg.shares |-> ToShare(dealt[i])]
         IN  [mgr |-> [m EXCEPT !.expected_hmac = Some(hmac),
                                !.status = "Sealed",
                                !.threshold = cfg.threshold],
              storage |-> [st EXCEPT !.root_token_hash = Some(hash_token(token)),
                                     !.shamir_threshold = Some(<<cfg.threshold>>),
                                     !.shamir_total = Some(<<cfg.shares>>),
                                     !.initialized_at = Some("now"),
                                     !.master_key_hmac = Some(hmac)],
              res |-> "Ok",
              out |-> Some([root_token |-> token, shares |-> shares])]

\* Mutant of reconstruct_master_key: the recovered secret is installed without
\* comparing its HMAC to the expected one.
Mut_reconstruct_NoHmacCheck(m) ==
    LET secret == Recover(m.threshold, m.pending_shares)
    IN  IF ~secret.some
        THEN [mgr |-> m, res |-> "ReconstructionFailed"]
        ELSE IF ~m.expected_hmac.some
        THEN [mgr |-> ClearPending(m), res |-> "ReconstructionFailed"]
        ELSE LET mk == MasterKeyFromBytes(secret.v)
             IN  IF ~mk.some
                 THEN [mgr |-> m, res |-> "Crypto"]
                 ELSE [mgr |-> [ClearPending(m) EXCEPT !.master_key = mk,
                                                       !.status = "Unsealed"],
                       res |-> "Ok"]

\* SealManager::reconstruct_master_key.
reconstruct_master_key(m) ==
    LET secret == Recover(m.threshold, m.pending_shares)
    IN  IF ~secret.some
        THEN [mgr |-> m, res |-> "ReconstructionFailed"]
        ELSE IF ~m.expected_hmac.some
        THEN [mgr |-> ClearPending(m), res |-> "ReconstructionFailed"]
        ELSE IF compute_master_key_hmac(secret.v) # m.expected_hmac.v
        THEN [mgr |-> ClearPending(m), res |-> "ReconstructionFailed"]
        ELSE LET mk == MasterKeyFromBytes(secret.v)
             IN  IF ~mk.some
                 THEN [mgr |-> m, res |-> "Crypto"]
                 ELSE [mgr |-> [ClearPending(m) EXCEPT !.master_key = mk,
                                                       !.status = "Unsealed"],
                       res |-> "Ok"]

\* Mutant of unseal: reconstruction is attempted only above the threshold.
Mut_unseal_StrictThreshold(m, share) ==
    IF m.status = "Uninitialized"
    THEN [mgr |-> m, res |-> "NotInitialized", out |-> None]
    ELSE IF m.status = "Unsealed"
    THEN [mgr |-> m, res |-> "AlreadyUnsealed", out |-> None]
    ELSE IF share.index \in m.pending_indices
    THEN [mgr |-> m, res |-> "DuplicateShare", out |-> Some(share.index)]
    ELSE LET parsed == SharkTryFrom(share.data)
         IN  IF ~parsed.some
             THEN [mgr |-> m, res |-> "InvalidShare", out |-> None]
             ELSE LET m1 == [m EXCEPT !.pending_shares = Append(@, parsed.v),
                                      !.pending_indices = @ \cup {share.index}]
                  IN  IF Len(m1.pending_shares) > m1.threshold
                      THEN LET r == reconstruct_master_key(m1)
                           IN  IF r.res # "Ok"
                               THEN [mgr |-> r.mgr, res |-> r.res, out |-> None]
                               ELSE [mgr |-> r.mgr, res |-> "Ok",
                                     out |-> Some(UnsealProgress(r.mgr))]
                      ELSE [mgr |-> m1, res |-> "Ok", out |-> Some(UnsealProgress(m1))]

\* Mutant of unseal: a share is appended before its index is checked for a duplicate,
\* and a share that does not parse still registers its index.
Mut_unseal_NoRejectFrame(m, share) ==
    IF m.status = "Uninitialized"
    THEN [mgr |-> m, res |-> "NotInitialized", out |-> None]
    ELSE IF m.status = "Unsealed"
    THEN [mgr |-> m, res |-> "AlreadyUnsealed", out |-> None]
    ELSE LET parsed == SharkTryFrom(share.data)
             m0 == [m EXCEPT !.pending_indices = @ \cup {share.index}]
         IN  IF ~parsed.some
             THEN [mgr |-> m0, res |-> "InvalidShare", out |-> None]
             ELSE LET m1 == [m0 EXCEPT !.pending_shares = Append(@, parsed.v)]
                  IN  IF share.index \in m.pending_indices
                      THEN [mgr |-> m1, res |-> "DuplicateShare",
                            out |-> Some(share.index)]
                      ELSE IF Len(m1.pending_shares) >= m1.threshold
                      THEN LET r == reconstruct_master_key(m1)
                           IN  IF r.res # "Ok"
                               THEN [mgr |-> r.mgr, res |-> r.res, out |-> None]
                               ELSE [mgr |-> r.mgr, res |-> "Ok",
                                     out |-> Some(UnsealProgress(r.mgr))]
                      ELSE [mgr |-> m1, res |-> "Ok", out |-> Some(UnsealProgress(m1))]

\* SealManager::unseal.
unseal(m, share) ==
    IF m.status = "Uninitialized"
    THEN [mgr |-> m, res |-> "NotInitialized", out |-> None]
    ELSE IF m.status = "Unsealed"
    THEN [mgr |-> m, res |-> "AlreadyUnsealed", out |-> None]
    ELSE IF share.index \in m.pending_indices
    THEN [mgr |-> m, res |-> "DuplicateShare", out |-> Some(share.index)]
    ELSE LET parsed == SharkTryFrom(share.data)
         IN  IF ~parsed.some
             THEN [mgr |-> m, res |-> "InvalidShare", out |-> None]
             ELSE LET m1 == [m EXCEPT !.pending_shares = Append(@, parsed.v),
                                      !.pending_indices = @ \cup {share.index}]
                  IN  IF Len(m1.pending_shares) >= m1.threshold
                      THEN LET r == reconstruct_master_key(m1)
                           IN  IF r.res # "Ok"
                               THEN [mgr |-> r.mgr, res |-> r.res, out |-> None]
                               ELSE [mgr |-> r.mgr, res |-> "Ok",
                                     out |-> Some(UnsealProgress(r.mgr))]
                      ELSE [mgr |-> m1, res |-> "Ok", out |-> Some(UnsealProgress(m1))]

\* Mutant of seal: the status goes to Sealed but the master key stays in memory.
Mut_seal_KeepsKey(m) ==
    IF m.dev_mode THEN m
    ELSE [ClearPending(m) EXCEPT !.status = "Sealed"]

\* Mutant of seal: the dev-mode guard is missing.
Mut_seal_IgnoresDevMode(m) ==
    [ClearPending(m) EXCEPT !.master_key = None, !.status = "Sealed"]

\* SealManager::seal.
seal(m) ==
    IF m.dev_mode THEN m
    ELSE [ClearPending(m) EXCEPT !.master_key = None, !.status = "Sealed"]

\* Mutant of enable_dev_mode: the status is not checked.
Mut_enable_dev_mode_NoStatusCheck(m, st, key, token) ==
    LET hmac == compute_master_key_hmac(key)
    IN  [mgr |-> [m EXCEPT !.expected_hmac = Some(hmac),
                           !.master_key = Some(key),
                           !.status = "Unsealed",
                           !.dev_mode = TRUE,
                           !.threshold = 1],
         storage |-> [st EXCEPT !.root_token_hash = Some(hash_token(token)),
                                !.dev_mode_master_key = Some(key),
                                !.shamir_threshold = Some(<<1>>),
                                !.shamir_total = Some(<<1>>),
                                !.initialized_at = Some("now"),
                                !.master_key_hmac = Some(hmac)],
         res |-> "Ok"]

\* SealManager::enable_dev_mode with the random draws (key, token) made explicit.
enable_dev_mode(m, st, key, token) ==
    IF m.status # "Uninitialized"
    THEN [mgr |-> m, storage |-> st, res |-> "AlreadyInitialized"]
    ELSE LET hmac == compute_master_key_hmac(key)
         IN  [mgr |-> [m EXCEPT !.expected_hmac = Some(hmac),
                                !.master_key = Some(key),
                                !.status = "Unsealed",
                                !.dev_mode = TRUE,
                                !.threshold = 1],
              storage |-> [st EXCEPT !.root_token_hash = Some(hash_token(token)),
                                     !.dev_mode_master_key = Some(key),
                                     !.shamir_threshold = Some(<<1>>),
                                     !.shamir_total = Some(<<1>>),
                                     !.initialized_at = Some("now"),
                                     !.master_key_hmac = Some(hmac)],
              res |-> "Ok"]

\* SealManager::verify_root_token.
verify_root_token(st, token) ==
    IF ~st.root_token_hash.some THEN [res |-> "NotInitialized", out |-> None]
    ELSE [res |-> "Ok", out |-> Some(verify_token(token, st.root_token_hash.v))]

\* ------------------------------------------------------- secrets engine
\* egide-secrets/src/lib.rs.  A path is a sequence of characters.  A row of
\* the secrets table is [path, version, deleted_at]; a row of secret_versions
\* is [path, version, data, expires_at].  The columns nobody reads back for a
\* decision (created_at, updated_at, metadata, created_by, the nonce) are
\* left out.  HKDF and the AEAD are injective tagging, as the HMAC above.

\* Width of the u64 timestamps (64 bits in the source, scaled).
U64_BITS == 5

U64_MODULUS == 2 ^ U64_BITS

\* The characters paths are written with: ASCII letters and a digit, the
\* hyphen, the underscore, the slash, the full stop, the space, and U+00E9
\* (e with acute accent), a letter outside ASCII.
Chars == {"a", "b", "0", "-", "_", "/", ".", " ", "U+00E9"}

\* char::is_alphanumeric: the Unicode property, true of letters and digits
\* of every script.
is_alphanumeric(c) == c \in {"a", "b", "0", "U+00E9"}

\* SecretsEngine::validate_path.
validate_path(path) ==
    /\ Len(path) > 0
    /\ path[1] # "/" /\ path[Len(path)] # "/"
    /\ \A i \in 1 .. (Len(path) - 1) : ~(path[i] = "/" /\ path[i + 1] = "/")
    /\ \A i \in 1 .. Len(path) :
          is_alphanumeric(path[i]) \/ path[i] \in {"-", "_", "/"}

\* The schema created by init_schema: both tables empty.
EmptyDb == [secrets |-> {}, secret_versions |-> {}]

\* The engine built by SecretsEngine::new on a data directory.
SecretsEngine(key) == [master_key |-> key]

\* SecretsEngine::derive_secret_key.
derive_secret_key(e, path) == <<"egide-secrets-v1:", path, e.master_key>>

\* SecretsEngine::encrypt_data.
encrypt_data(e, path, data) ==
    [key |-> derive_secret_key(e, path), aad |-> path, plaintext |-> data]

\* SecretsEngine::decrypt_data: None when the AEAD rejects the ciphertext.
decrypt_data(e, path, ct) ==
    IF ct.key = derive_secret_key(e, path) /\ ct.aad = path
    THEN Some(ct.plaintext) ELSE None

\* SELECT version, deleted_at FROM secrets WHERE path = ?
SelectSecret(d, path) ==
    IF \E r \in d.secrets : r.path = path
    THEN Some(CHOOSE r \in d.secrets : r.path = path)
    ELSE None

\* UPDATE secrets SET version = ? WHERE path = ? (no row matched is no error).
UpdateSecretVersion(d, path, version) ==
    [d EXCEPT !.secrets =
        {IF r.path = path THEN [r EXCEPT !.version = version] ELSE r : r \in @}]

\* INSERT INTO secrets: fails on the primary key (path).
InsertSecret(d, path, version) ==
    IF \E r \in d.secrets : r.path = path
    THEN [ok |-> FALSE, db |-> d]
    ELSE [ok |-> TRUE,
          db |-> [d EXCEPT !.secrets =
                     @ \cup {[path |-> path, version |-> version,
                              deleted_at |-> None]}]]

\* Mutant of InsertVersion: the row replaces one with the same primary key.
Mut_InsertVersion_OrReplace(d, path, version, data, expires_at) ==
    [ok |-> TRUE,
     db |-> [d EXCEPT !.secret_versions =
                {r \in @ : ~(r.path = path /\ r.version = version)}
                \cup {[path |-> path, version |-> version, data |-> data,
                       expires_at |-> expires_at]}]]

\* INSERT INTO secret_versions: fails on the primary key (path, version).
InsertVersion(d, path, version, data, expires_at) ==
    IF \E r \in d.secret_versions : r.path = path /\ r.version = version
    THEN [ok |-> FALSE, db |-> d]
    ELSE [ok |-> TRUE,
          db |-> [d EXCEPT !.secret_versions =
                     @ \cup {[path |-> path, version |-> version, data |-> data,
                              expires_at |-> expires_at]}]]

\* SELECT ... FROM secret_versions WHERE path = ? AND version = ?
SelectVersion(d, path, version) ==
    IF \E r \in d.secret_versions : r.path = path /\ r.version = version
    THEN Some(CHOOSE r \in d.secret_versions : r.path = path /\ r.version = version)
    ELSE None

\* UPDATE secrets SET deleted_at = ? WHERE path = ?
UpdateDeletedAt(d, path, deleted_at) ==
    [d EXCEPT !.secrets =
        {IF r.path = path THEN [r EXCEPT !.deleted_at = deleted_at] ELSE r : r \in @}]

\* SELECT path FROM secrets WHERE deleted_at IS NOT NULL AND deleted_at < ?
SelectDeletedBefore(d, cutoff) ==
    {r.path : r \in {q \in d.secrets : q.deleted_at.some /\ q.deleted_at.v < cutoff}}

\* PutOptions::default.
DefaultOptions == [ttl |-> None, cas |-> None]

\* A put that has returned: its result and what it read.
Returned(path, options, seen, res, out) ==
    [pc |-> "done", path |-> path, cas |-> options.cas, seen |-> seen,
     res |-> res, out |-> out]

\* Mutant of put_read: the check-and-set comparison is missing.
Mut_put_read_NoCas(e, d, t, path, data, options) ==
    IF ~validate_path(path)
    THEN Returned(path, options, None, "InvalidPath", None)
    ELSE LET existing == SelectSecret(d, path)
             expires_at == IF options.ttl.some
                           THEN Some((t + options.ttl.v) % U64_MODULUS) ELSE None
         IN  IF existing.some /\ existing.v.deleted_at.some
             THEN Returned(path, options, existing, "Deleted", None)
             ELSE [pc |-> "record", path |-> path, cas |-> options.cas,
                   seen |-> existing, data |-> data, expires_at |-> expires_at,
                   new_version |-> IF existing.some
                                   THEN existing.v.version + 1 ELSE 1]

\* Mutant of put_read: the record's deleted_at is not looked at.
Mut_put_read_IgnoresDeleted(e, d, t, path, data, options) ==
    IF ~validate_path(path)
    THEN Returned(path, options, None, "InvalidPath", None)
    ELSE LET existing == SelectSecret(d, path)
             expires_at == IF options.ttl.some
                           THEN Some((t + options.ttl.v) % U64_MODULUS) ELSE None
         IN  IF existing.some /\ options.cas.some
                /\ existing.v.version # options.cas.v
             THEN Returned(path, options, existing, "VersionMismatch",
                           Some([expected |-> options.cas.v,
                                 found |-> existing.v.version]))
             ELSE IF ~existing.some /\ options.cas.some
             THEN Returned(path, options, existing, "NotFound", None)
             ELSE [pc |-> "record", path |-> path, cas |-> options.cas,
                   seen |-> existing, data |-> data, expires_at |-> expires_at,
                   new_version |-> IF existing.some
                                   THEN existing.v.version + 1 ELSE 1]

\* SecretsEngine::put up to its first write: validation, the expiry, the
\* SELECT on secrets and the checks made on the row it returned.
put_read(e, d, t, path, data, options) ==
    IF ~validate_path(path)
    THEN Returned(path, options, None, "InvalidPath", None)
    ELSE LET existing == SelectSecret(d, path)
             expires_at == IF options.ttl.some
                           THEN Some((t + options.ttl.v) % U64_MODULUS) ELSE None
         IN  IF existing.some /\ existing.v.deleted_at.some
             THEN Returned(path, options, existing, "Deleted", None)
             ELSE IF existing.some /\ options.cas.some
                     /\ existing.v.version # options.cas.v
             THEN Returned(path, options, existing, "VersionMismatch",
                           Some([expected |-> options.cas.v,
                                 found |-> existing.v.version]))
             ELSE IF ~existing.some /\ options.cas.some
             THEN Returned(path, options, existing, "NotFound", None)
             ELSE [pc |-> "record", path |-> path, cas |-> options.cas,
                   seen |-> existing, data |-> data, expires_at |-> expires_at,
                   new_version |-> IF existing.some
                                   THEN existing.v.version + 1 ELSE 1]

\* Mutant of put_record: the record keeps its version.
Mut_put_record_KeepsVersion(d, c) ==
    IF c.seen.some
    THEN [db |-> d, call |-> [c EXCEPT !.pc = "version"]]
    ELSE LET ins == InsertSecret(d, c.path, c.new_version)
         IN  IF ins.ok
             THEN [db |-> ins.db, call |-> [c EXCEPT !.pc = "version"]]
             ELSE [db |-> d,
                   call |-> Returned(c.path, [cas |-> c.cas], c.seen, "Storage", None)]

\* SecretsEngine::put, its write to the secrets table (UPDATE or INSERT).
put_record(d, c) ==
    IF c.seen.some
    THEN [db |-> UpdateSecretVersion(d, c.path, c.new_version),
          call |-> [c EXCEPT !.pc = "version"]]
    ELSE LET ins == InsertSecret(d, c.path, c.new_version)
         IN  IF ins.ok
             THEN [db |-> ins.db, call |-> [c EXCEPT !.pc = "version"]]
             ELSE [db |-> d,
                   call |-> Returned(c.path, [cas |-> c.cas], c.seen, "Storage", None)]

\* SecretsEngine::put, encryption and the INSERT into secret_versions.
put_version(e, d, c) ==
    LET ins == InsertVersion(d, c.path, c.new_version,
                             encrypt_data(e, c.path, c.data), c.expires_at)
    IN  IF ins.ok
        THEN [db |-> ins.db,
              call |-> Returned(c.path, [cas |-> c.cas], c.seen, "Ok",
                                Some(c.new_version))]
        ELSE [db |-> d,
              call |-> Returned(c.path, [cas |-> c.cas], c.seen, "Storage", None)]

\* SecretsEngine::put run to completion.
put(e, d, t, path, data, options) ==
    LET c1 == put_read(e, d, t, path, data, options)
        r2 == IF c1.pc = "record" THEN put_record(d, c1) ELSE [db |-> d, call |-> c1]
        r3 == IF r2.call.pc = "version" THEN put_version(e, r2.db, r2.call) ELSE r2
    IN  [db |-> r3.db, res |-> r3.call.res, out |-> r3.call.out]

\* Mutant of get_version: a version expires at its expiry second already.
Mut_get_version_ExpiresEarly(e, d, t, path, version) ==
    IF ~validate_path(path) THEN [res |-> "InvalidPath", out |-> None]
    ELSE LET row == SelectVersion(d, path, version)
         IN  IF ~row.some THEN [res |-> "VersionNotFound", out |-> None]
             ELSE IF row.v.expires_at.some /\ row.v.expires_at.v <= t
             THEN [res |-> "Expired", out |-> None]
             ELSE LET data == decrypt_data(e, path, row.v.data)
                  IN  IF ~data.some THEN [res |-> "Crypto", out |-> None]
                      ELSE [res |-> "Ok",
                            out |-> Some([path |-> path, data |-> data.v,
                                          version |-> version,
                                          expires_at |-> row.v.expires_at])]

\* SecretsEngine::get_version.
get_version(e, d, t, path, version) ==
    IF ~validate_path(path) THEN [res |-> "InvalidPath", out |-> None]
    ELSE LET row == SelectVersion(d, path, version)
         IN  IF ~row.some THEN [res |-> "VersionNotFound", out |-> None]
             ELSE IF row.v.expires_at.some /\ row.v.expires_at.v < t
             THEN [res |-> "Expired", out |-> None]
             ELSE LET data == decrypt_data(e, path, row.v.data)
                  IN  IF ~data.some THEN [res |-> "Crypto", out |-> None]
                      ELSE [res |-> "Ok",
                            out |-> Some([path |-> path, data |-> data.v,
                                          version |-> version,
                                          expires_at |-> row.v.expires_at])]

\* SecretsEngine::get.
get(e, d, t, path) ==
    IF ~validate_path(path) THEN [res |-> "InvalidPath", out |-> None]
    ELSE LET row == SelectSecret(d, path)
         IN  IF ~row.some THEN [res |-> "NotFound", out |-> None]
             ELSE IF row.v.deleted_at.some THEN [res |-> "Deleted", out |-> None]
             ELSE get_version(e, d, t, path, row.v.version)

\* SecretsEngine::delete.
delete(d, t, path) ==
    IF ~validate_path(path) THEN [db |-> d, res |-> "InvalidPath"]
    ELSE LET row == SelectSecret(d, path)
         IN  IF ~row.some THEN [db |-> d, res |-> "NotFound"]
             ELSE IF row.v.deleted_at.some THEN [db |-> d, res |-> "Deleted"]
             ELSE [db |-> UpdateDeletedAt(d, path, Some(t)), res |-> "Ok"]

\* Mutant of undelete: the record's version is reset to 1.
Mut_undelete_ResetsVersion(d, t, path) ==
    IF ~validate_path(path) THEN [db |-> d, res |-> "InvalidPath"]
    ELSE LET row == SelectSecret(d, path)
         IN  IF ~row.some THEN [db |-> d, res |-> "NotFound"]
             ELSE IF ~row.v.deleted_at.some THEN [db |-> d, res |-> "NotDeleted"]
             ELSE [db |-> UpdateSecretVersion(UpdateDeletedAt(d, path, None), path, 1),
                   res |-> "Ok"]

\* SecretsEngine::undelete.
undelete(d, t, path) ==
    IF ~validate_path(path) THEN [db |-> d, res |-> "InvalidPath"]
    ELSE LET row == SelectSecret(d, path)
         IN  IF ~row.some THEN [db |-> d, res |-> "NotFound"]
             ELSE IF ~row.v.deleted_at.some THEN [db |-> d, res |-> "NotDeleted"]
             ELSE [db |-> UpdateDeletedAt(d, path, None), res |-> "Ok"]

\* Mutant of rollback: the current version's data is put again.
Mut_rollback_CurrentData(e, d, t, path, version) ==
    LET old_secret == get_version(e, d, t, path, version)
        current == get(e, d, t, path)
    IN  IF old_secret.res # "Ok"
        THEN [db |-> d, res |-> old_secret.res, out |-> None]
        ELSE IF current.res # "Ok"
        THEN [db |-> d, res |-> current.res, out |-> None]
        ELSE put(e, d, t, path, current.out.v.data, DefaultOptions)

\* SecretsEngine::rollback.
rollback(e, d, t, path, version) ==
    LET old_secret == get_version(e, d, t, path, version)
    IN  IF old_secret.res # "Ok"
        THEN [db |-> d, res |-> old_secret.res, out |-> None]
        ELSE put(e, d, t, path, old_secret.out.v.data, DefaultOptions)

\* SecretsEngine::purge_deleted.  now - older_than is a u64 subtraction: when
\* it overflows, a build with overflow checks (the debug profile) panics and a
\* build without them (the release profile) wraps.  The loop deletes the
\* versions and the record of every selected path.
purge_deleted(d, t, older_than, overflow_checks) ==
    IF older_than > t /\ overflow_checks
    THEN [db |-> d, res |-> "Panic", out |-> None]
    ELSE LET cutoff == (t + U64_MODULUS - older_than) % U64_MODULUS
             paths == SelectDeletedBefore(d, cutoff)
         IN  [db |-> [secrets |-> {r \in d.secrets : r.path \notin paths},
                      secret_versions |->
                          {r \in d.secret_versions : r.path \notin paths}],
              res |-> "Ok", out |-> Some(Cardinality(paths))]

\* ---------------------------------------------------------------- inputs

\* The configurations a caller passes to initialize, invalid ones included.
Configs == [shares : 0 .. MaxShares, threshold : 0 .. MaxThreshold]

\* Well-formed shares as Share::from_hex yields them: index = data[0].
WellFormedShares ==
    {ToShare([x |-> x, y |-> y]) : x \in 1 .. MaxShares, y \in [1 .. KEY_SIZE -> Field]}

\* Shares one byte longer than the shares of this vault.
LongShares ==
    {ToShare([x |-> 1, y |-> [b \in 1 .. (KEY_SIZE + 1) |-> 0]])}

\* Shares whose data is too short to parse.
ShortShares == {[index |-> MaxShares, data |-> <<MaxShares>>]}

ShareInputs == WellFormedShares \cup LongShares \cup ShortShares

\* ----------------------------------------------------------------- actions

\* No put is in flight on the engine.
NoCalls == [c \in 1 .. 2 |-> [pc |-> "idle"]]

\* Neither the seal handler nor the unseal handler is between its two locks.
NoHandlers == [seal |-> [pc |-> "idle", token |-> None], unseal |-> "idle"]

\* No server process runs on the data directory.
ServerDown == serving = FALSE /\ secrets = None /\ handlers = NoHandlers

\* The schema of the transit engine: both tables empty.
EmptyTransitDb == [transit_keys |-> {}, transit_key_versions |-> {}]

\* No rotate_key call is in progress.
NoRotations == [c \in 1 .. 2 |-> [pc |-> "idle"]]

\* No transit engine was opened on the data directory.
TransitUnused == transit = EmptyTransitDb /\ held = None /\ rotations = NoRotations

\* AuthService::validate was not called: no loop is running.
NoValidation == [pc |-> "idle", backends |-> <<>>, consulted |-> <<>>, result |-> None]

\* AppState as main builds it: both locks free, no handler running.
FreeLocks ==
    [seal |-> [holders |-> {}, queue |-> <<>>],
     secrets |-> [holders |-> {}, queue |-> <<>>]]

NoTasks == [h \in 1 .. 3 |-> [kind |-> "none", pc |-> 0, waiting |-> FALSE]]

\* No secrets engine and no transit engine was opened on the data directory,
\* no token is being validated and no handler runs.
EngineUnused ==
    /\ db = EmptyDb /\ now = 0 /\ calls = NoCalls /\ TransitUnused
    /\ validation = NoValidation
    /\ locks = FreeLocks /\ tasks = NoTasks

Init ==
    /\ storage = EmptyStorage
    /\ mgr = NewManager(EmptyStorage).v
    /\ issued = None
    /\ last = [op |-> "new", res |-> "Ok", out |-> None]
    /\ ServerDown
    /\ EngineUnused

Initialize(cfg, key, polys, token) ==
    LET r == initialize(mgr, storage, cfg, key, polys, token)
    IN  /\ mgr' = r.mgr
        /\ storage' = r.storage
        /\ issued' = IF r.res = "Ok"
                     THEN Some([key |-> key, shares |-> r.out.v.shares,
                                root_token |-> token])
                     ELSE issued
        /\ last' = [op |-> "initialize", res |-> r.res, out |-> None]
        /\ UNCHANGED <<lockVars, validation, transitVars, serverVars, engineVars>>

Unseal(share) ==
    LET r == unseal(mgr, share)
    IN  /\ Len(mgr.pending_shares) < MaxPending
        /\ mgr' = r.mgr
        /\ last' = [op |-> "unseal", res |-> r.res,
                    out |-> IF r.res = "Ok" THEN r.out ELSE None]
        /\ UNCHANGED <<lockVars, validation, transitVars, storage, issued, serverVars, engineVars>>

Seal ==
    /\ mgr' = seal(mgr)
    /\ last' = [op |-> "seal", res |-> "Ok", out |-> None]
    /\ UNCHANGED <<lockVars, validation, transitVars, storage, issued, serverVars, engineVars>>

EnableDevMode(key, token) ==
    LET r == enable_dev_mode(mgr, storage, key, token)
    IN  /\ mgr' = r.mgr
        /\ storage' = r.storage
        /\ issued' = IF r.res = "Ok"
                     THEN Some([key |-> key, shares |-> <<>>, root_token |-> token])
                     ELSE issued
        /\ last' = [op |-> "enable_dev_mode", res |-> r.res, out |-> None]
        /\ UNCHANGED <<lockVars, validation, transitVars, serverVars, engineVars>>

\* The process is stopped and SealManager::new is called on the same data path.
Restart ==
    /\ NewManager(storage).some
    /\ mgr' = NewManager(storage).v
    /\ last' = [op |-> "new", res |-> "Ok", out |-> None]
    /\ UNCHANGED <<lockVars, validation, transitVars, storage, issued, serverVars, engineVars>>

\* storage.delete(MASTER_KEY_HMAC): the corruption test_unseal_missing_hmac_fails simulates.
CorruptHmac ==
    /\ storage.master_key_hmac.some
    /\ storage' = [storage EXCEPT !.master_key_hmac = None]
    /\ last' = [op |-> "delete_hmac", res |-> "Ok", out |-> None]
    /\ UNCHANGED <<lockVars, validation, transitVars, mgr, issued, serverVars, engineVars>>

Next ==
    \/ \E cfg \in Configs, key \in KeyDraws, token \in TokenDraws :
          \E polys \in Polys(cfg.threshold) : Initialize(cfg, key, polys, token)
    \/ \E share \in ShareInputs : Unseal(share)
    \/ Seal
    \/ \E key \in KeyDraws, token \in TokenDraws : EnableDevMode(key, token)
    \/ Restart

Spec == Init /\ [][Next]_vars

NextFault == Next \/ CorruptHmac

\* The same program on a storage whose master_key_hmac record can be lost.
SpecFault == Init /\ [][NextFault]_vars

\* ----------------------------------------------- secrets engine: actions

\* Puts and rollbacks are taken while the path's version is below MaxVersion
\* (on path "a"; the second path keeps a single version).
MaxVersion == 3

\* The clock runs from 0 to MaxTime.
MaxTime == 2

\* The paths callers use: two valid ones and one validate_path rejects.
Paths == {<<"a">>, <<"b">>}

PathInputs == Paths \cup {<<"a", "/">>}

\* The values of PutOptions.cas.
CasInputs == {None} \cup {Some(v) : v \in 1 .. MaxVersion}

\* The puts callers make: plain and check-and-set puts of "d1", and a put of
\* "d2" that expires after one second.
PutRequests ==
    {[path |-> p, data |-> "d1", options |-> [ttl |-> None, cas |-> c]] :
        p \in PathInputs, c \in CasInputs}
    \cup {[path |-> <<"a">>, data |-> "d2", options |-> [ttl |-> Some(1), cas |-> None]]}

\* The master key the engine is opened with (tests::setup).
TestKey == CHOOSE k \in KeyDraws : TRUE

\* The versions the histories store: up to MaxVersion on path "a", one on
\* the other paths.
WithinBound(path, version) ==
    version <= (IF path = <<"a">> THEN MaxVersion ELSE 1)

\* The seal manager and the server play no part in the engine's histories.
NoVault ==
    /\ storage = EmptyStorage
    /\ mgr = FreshManager
    /\ issued = None
    /\ ServerDown

SecretsInit ==
    /\ NoVault
    /\ EngineUnused
    /\ last = [op |-> "new", res |-> "Ok", out |-> None]

Put(req) ==
    LET r == put(SecretsEngine(TestKey), db, now, req.path, req.data, req.options)
    IN  /\ r.res = "Ok" => WithinBound(req.path, r.out.v)
        /\ db' = r.db
        /\ last' = [op |-> "put", res |-> r.res,
                    out |-> IF r.res = "Ok" THEN r.out ELSE None]
        /\ UNCHANGED <<lockVars, validation, transitVars, mgr, storage, issued, serverVars, now, calls>>

Delete(path) ==
    LET r == delete(db, now, path)
    IN  /\ db' = r.db
        /\ last' = [op |-> "delete", res |-> r.res, out |-> None]
        /\ UNCHANGED <<lockVars, validation, transitVars, mgr, storage, issued, serverVars, now, calls>>

Undelete(path) ==
    LET r == undelete(db, now, path)
    IN  /\ db' = r.db
        /\ last' = [op |-> "undelete", res |-> r.res, out |-> None]
        /\ UNCHANGED <<lockVars, validation, transitVars, mgr, storage, issued, serverVars, now, calls>>

Rollback(path, version) ==
    LET r == rollback(SecretsEngine(TestKey), db, now, path, version)
    IN  /\ r.res = "Ok" => WithinBound(path, r.out.v)
        /\ db' = r.db
        /\ last' = [op |-> "rollback", res |-> r.res,
                    out |-> IF r.res = "Ok" THEN r.out ELSE None]
        /\ UNCHANGED <<lockVars, validation, transitVars, mgr, storage, issued, serverVars, now, calls>>

PurgeDeleted(older_than, overflow_checks) ==
    LET r == purge_deleted(db, now, older_than, overflow_checks)
    IN  /\ db' = r.db
        /\ last' = [op |-> "purge_deleted", res |-> r.res, out |-> r.out,
                    older_than |-> older_than]
        /\ UNCHANGED <<lockVars, validation, transitVars, mgr, storage, issued, serverVars, now, calls>>

\* A second passes on the wall clock.
Tick ==
    /\ now < MaxTime
    /\ now' = now + 1
    /\ UNCHANGED <<lockVars, validation, transitVars, mgr, storage, issued, last, serverVars, db, calls>>

SecretsNext ==
    \/ \E req \in PutRequests : Put(req)
    \/ \E path \in Paths : Delete(path)
    \/ \E path \in Paths : Undelete(path)
    \/ \E version \in 1 .. MaxVersion : Rollback(<<"a">>, version)
    \/ \E older_than \in 0 .. (MaxTime + 1), overflow_checks \in BOOLEAN :
          PurgeDeleted(older_than, overflow_checks)
    \/ Tick

\* One caller at a time on the engine: every call runs to completion.
SpecSecrets == SecretsInit /\ [][SecretsNext]_vars

\* ------------------------------------- secrets engine: concurrent callers

\* The two tasks that call put on the same engine and the same path.
Callers == DOMAIN NoCalls

\* What a caller puts: its own data, with any check-and-set option.
CallerRequests(c) ==
    {[path |-> <<"a">>, data |-> IF c = 1 THEN "d1" ELSE "d2",
      options |-> [ttl |-> None, cas |-> cas]] : cas \in CasInputs}

\* put is called: it runs up to the await of its first write.
PutBegin(c, req) ==
    LET r == put_read(SecretsEngine(TestKey), db, now, req.path, req.data, req.options)
    IN  /\ calls[c].pc = "idle"
        /\ r.pc = "record" => WithinBound(req.path, r.new_version)
        /\ calls' = [calls EXCEPT ![c] = r]
        /\ UNCHANGED <<lockVars, validation, transitVars, mgr, storage, issued, last, serverVars, db, now>>

\* The UPDATE or INSERT on the secrets table completes.
PutRecord(c) ==
    LET r == put_record(db, calls[c])
    IN  /\ calls[c].pc = "record"
        /\ db' = r.db
        /\ calls' = [calls EXCEPT ![c] = r.call]
        /\ UNCHANGED <<lockVars, validation, transitVars, mgr, storage, issued, last, serverVars, now>>

\* The INSERT on secret_versions completes and put returns.
PutVersion(c) ==
    LET r == put_version(SecretsEngine(TestKey), db, calls[c])
    IN  /\ calls[c].pc = "version"
        /\ db' = r.db
        /\ calls' = [calls EXCEPT ![c] = r.call]
        /\ UNCHANGED <<lockVars, validation, transitVars, mgr, storage, issued, last, serverVars, now>>

\* The caller takes the result; it can call put again.
PutReturn(c) ==
    /\ calls[c].pc = "done"
    /\ calls' = [calls EXCEPT ![c] = [pc |-> "idle"]]
    /\ UNCHANGED <<lockVars, validation, transitVars, mgr, storage, issued, last, serverVars, db, now>>

\* delete and undelete, called while no put is in flight.
QuietDelete(path) ==
    /\ calls = NoCalls
    /\ db' = delete(db, now, path).db
    /\ UNCHANGED <<lockVars, validation, transitVars, mgr, storage, issued, last, serverVars, now, calls>>

QuietUndelete(path) ==
    /\ calls = NoCalls
    /\ db' = undelete(db, now, path).db
    /\ UNCHANGED <<lockVars, validation, transitVars, mgr, storage, issued, last, serverVars, now, calls>>

PutsNext ==
    \/ \E c \in Callers : \E req \in CallerRequests(c) : PutBegin(c, req)
    \/ \E c \in Callers : PutRecord(c)
    \/ \E c \in Callers : PutVersion(c)
    \/ \E c \in Callers : PutReturn(c)
    \/ QuietDelete(<<"a">>)
    \/ QuietUndelete(<<"a">>)

\* Two callers whose puts interleave at the storage calls.
SpecPuts == SecretsInit /\ [][PutsNext]_vars

\* ------------------------------------------------------------ shorthands

Range(seq) == {seq[i] : i \in 1 .. Len(seq)}

\* The shares returned by this vault's initialize (none before it, none in dev mode).
OwnShares == IF issued.some THEN Range(issued.v.shares) ELSE {}

\* The pending set holds only shares returned by this vault's initialize.
OwnPending ==
    /\ \A i \in 1 .. Len(mgr.pending_shares) : ToShare(mgr.pending_shares[i]) \in OwnShares
    /\ mgr.pending_indices = {mgr.pending_shares[i].x : i \in 1 .. Len(mgr.pending_shares)}

\* The shares an independent initialize with threshold k and master key key2 can deal.
ForeignDeals(k, key2) ==
    {Deal(key2, polys, MaxShares) : polys \in [1 .. KEY_SIZE -> [1 .. (k - 1) -> Field \ {0}]]}

\* The shark shares in seq all come from one independent initialize of another
\* vault (same threshold, a different master key).
FromOtherVault(seq) ==
    /\ issued.some
    /\ \E key2 \in MasterKeys \ {issued.v.key} :
          \E deal \in ForeignDeals(mgr.threshold, key2) :
             \A i \in 1 .. Len(seq) :
                /\ seq[i].x \in DOMAIN deal
                /\ seq[i] = deal[seq[i].x]

\* ------------------------------------------------------------------ server
\* egide-server/src/main.rs.  A handler that takes the seal lock and then the
\* secrets lock is two actions, one per critical section; the other handlers
\* run in one critical section and are one action each.  The server is
\* started with the default auth backend (root-token).

\* RootTokenBackend::validate on the seal manager's storage.
RootTokenBackend_validate(st, token) ==
    IF ~st.root_token_hash.some THEN "TokenNotFound"
    ELSE IF verify_token(token, st.root_token_hash.v) THEN "Ok"
    ELSE "InvalidCredentials"

\* AuthService::validate with the root-token backend as its only backend.
AuthService_validate(st, token) ==
    LET r == RootTokenBackend_validate(st, token)
    IN  IF r \in {"Ok", "TokenExpired"} THEN r ELSE "InvalidCredentials"

\* Authenticated::from_request_parts: the rejection, or Ok.
Authenticated(st, header) ==
    IF ~header.some THEN [status |-> 401, error |-> "missing authentication token"]
    ELSE LET r == AuthService_validate(st, header.v)
         IN  IF r = "Ok" THEN [status |-> 200, error |-> ""]
             ELSE IF r = "TokenExpired" THEN [status |-> 401, error |-> "token expired"]
             ELSE [status |-> 401, error |-> "invalid credentials"]

\* AppState::ensure_secrets_engine.
ensure_secrets_engine(m, slot) ==
    IF Status(m) # "Unsealed" THEN [res |-> "Vault is sealed", secrets |-> slot]
    ELSE IF ~master_key(m).some THEN [res |-> "Master key not available", secrets |-> slot]
    ELSE [res |-> "Ok",
          secrets |-> IF slot.some THEN slot ELSE Some(SecretsEngine(master_key(m).v))]

\* AppState::clear_secrets_engine.
clear_secrets_engine(slot) == None

\* SecretsEngine::list: the paths matching LIKE 'prefix%' ('_' matches any character).
list(d, prefix) ==
    {r.path : r \in {q \in d.secrets :
        /\ Len(prefix) <= Len(q.path)
        /\ \A i \in 1 .. Len(prefix) : prefix[i] = "_" \/ prefix[i] = q.path[i]}}

\* The X-Egide-Token header of a request: absent, or some token.
Headers == {None} \cup {Some(t) : t \in Tokens}

\* The bodies of POST /v1/sys/init: a valid configuration and an invalid one.
InitRequests == {[shares |-> 2, threshold |-> 2], [shares |-> 1, threshold |-> 2]}

\* The path and the bodies of the secrets requests.
RequestPath == <<"b">>

SecretPutRequests == {[data |-> "d1", cas |-> c] : c \in {None, Some(1)}}

\* The record of a request: endpoint, response status, response body, token header.
Response(op, status, body, header) ==
    [op |-> op, res |-> status, out |-> body, token |-> header]

\* No process runs; the data directory is empty.
ServerInit ==
    /\ storage = EmptyStorage
    /\ mgr = FreshManager
    /\ issued = None
    /\ ServerDown
    /\ EngineUnused
    /\ last = [op |-> "new", res |-> "Ok", out |-> None]

\* main up to axum::serve, with or without --dev.  An error ends the process.
Main(dev, key, token) ==
    LET m0 == NewManager(storage)
        r == IF ~m0.some THEN [mgr |-> FreshManager, storage |-> storage, res |-> "Crypto"]
             ELSE IF dev THEN enable_dev_mode(m0.v, storage, key, token)
             ELSE [mgr |-> m0.v, storage |-> storage, res |-> "Ok"]
        eng == IF r.res = "Ok" /\ Status(r.mgr) = "Unsealed"
               THEN ensure_secrets_engine(r.mgr, None)
               ELSE [res |-> "Ok", secrets |-> None]
        up == r.res = "Ok" /\ eng.res = "Ok"
    IN  /\ ~serving
        /\ serving' = up
        /\ mgr' = IF up THEN r.mgr ELSE FreshManager
        /\ storage' = r.storage
        /\ secrets' = IF up THEN eng.secrets ELSE None
        /\ issued' = IF dev /\ r.res = "Ok"
                     THEN Some([key |-> key, shares |-> <<>>, root_token |-> token])
                     ELSE issued
        /\ last' = [op |-> "main", res |-> IF r.res # "Ok" THEN r.res ELSE eng.res,
                    out |-> None, dev |-> dev]
        /\ UNCHANGED <<lockVars, validation, transitVars, handlers, engineVars>>

\* Graceful shutdown: the in-flight requests have completed.
Stop ==
    /\ serving
    /\ handlers = NoHandlers
    /\ serving' = FALSE
    /\ mgr' = FreshManager
    /\ secrets' = None
    /\ last' = [op |-> "stop", res |-> "Ok", out |-> None]
    /\ UNCHANGED <<lockVars, validation, transitVars, storage, issued, handlers, engineVars>>

\* init_handler.
InitHandler(req, key, polys, token) ==
    LET r == initialize(mgr, storage, req, key, polys, token)
    IN  /\ serving
        /\ IF Status(mgr) # "Uninitialized"
           THEN /\ last' = Response("POST /v1/sys/init", 400, None, None)
                /\ UNCHANGED <<lockVars, validation, transitVars, mgr, storage, issued>>
           ELSE /\ mgr' = r.mgr
                /\ storage' = r.storage
                /\ issued' = IF r.res = "Ok"
                             THEN Some([key |-> key, shares |-> r.out.v.shares,
                                        root_token |-> token])
                             ELSE issued
                /\ last' = Response("POST /v1/sys/init",
                                    IF r.res = "Ok" THEN 200 ELSE 500, None, None)
        /\ UNCHANGED <<lockVars, validation, transitVars, serverVars, engineVars>>

\* unseal_handler up to the release of the seal lock.  key is a parsed share,
\* or None for a body Share::from_hex rejects.
UnsealHandler(key) ==
    LET r == unseal(mgr, key.v)
        op == "POST /v1/sys/unseal"
    IN  /\ serving
        /\ handlers.unseal = "idle"
        /\ Len(mgr.pending_shares) < MaxPending
        /\ IF ~key.some \/ Status(mgr) = "Uninitialized"
           THEN /\ last' = Response(op, 400, None, None)
                /\ UNCHANGED <<lockVars, validation, transitVars, mgr, handlers>>
           ELSE IF Status(mgr) = "Unsealed"
           THEN /\ last' = Response(op, 200,
                                    Some([sealed |-> FALSE, threshold |-> 0,
                                          progress |-> 0]), None)
                /\ UNCHANGED <<lockVars, validation, transitVars, mgr, handlers>>
           ELSE IF r.res # "Ok"
           THEN /\ mgr' = r.mgr
                /\ last' = Response(op, 400, None, None)
                /\ UNCHANGED handlers
           ELSE IF r.out.v.sealed
           THEN /\ mgr' = r.mgr
                /\ last' = Response(op, 200, r.out, None)
                /\ UNCHANGED handlers
           ELSE /\ mgr' = r.mgr
                /\ handlers' = [handlers EXCEPT !.unseal = "ensure"]
                /\ UNCHANGED last
        /\ UNCHANGED <<lockVars, validation, transitVars, storage, issued, serving, secrets, engineVars>>

\* unseal_handler after an unseal that completed: ensure_secrets_engine and
\* the response.
UnsealHandlerEnsure ==
    LET r == ensure_secrets_engine(mgr, secrets)
    IN  /\ handlers.unseal = "ensure"
        /\ secrets' = r.secrets
        /\ handlers' = [handlers EXCEPT !.unseal = "idle"]
        /\ last' = Response("POST /v1/sys/unseal",
                            IF r.res = "Ok" THEN 200 ELSE 500, None, None)
        /\ UNCHANGED <<lockVars, validation, transitVars, mgr, storage, issued, serving, engineVars>>

\* seal_handler up to the release of the seal lock.  The handler has no
\* Authenticated extractor: the token header is not looked at.
SealHandler(header) ==
    /\ serving
    /\ handlers.seal.pc = "idle"
    /\ IF Status(mgr) # "Unsealed"
       THEN /\ last' = Response("POST /v1/sys/seal", 400, None, header)
            /\ UNCHANGED <<lockVars, validation, transitVars, mgr, handlers>>
       ELSE /\ mgr' = seal(mgr)
            /\ handlers' = [handlers EXCEPT !.seal = [pc |-> "clear", token |-> header]]
            /\ UNCHANGED last
    /\ UNCHANGED <<lockVars, validation, transitVars, storage, issued, serving, secrets, engineVars>>

\* seal_handler after the seal lock: clear_secrets_engine and the response.
SealHandlerClear ==
    /\ handlers.seal.pc = "clear"
    /\ secrets' = clear_secrets_engine(secrets)
    /\ handlers' = [handlers EXCEPT !.seal = NoHandlers.seal]
    /\ last' = Response("POST /v1/sys/seal", 200, Some([sealed |-> TRUE]),
                        handlers.seal.token)
    /\ UNCHANGED <<lockVars, validation, transitVars, mgr, storage, issued, serving, engineVars>>

\* secrets_get_handler.
SecretsGetHandler(header, path) ==
    LET auth == Authenticated(storage, header)
        op == "GET /v1/secrets"
        r == get(secrets.v, db, now, path)
    IN  /\ serving
        /\ last' = IF auth.status # 200 THEN Response(op, auth.status, None, header)
                   ELSE IF ~secrets.some THEN Response(op, 503, None, header)
                   ELSE IF r.res = "Ok"
                   THEN Response(op, 200,
                                 Some([data |-> r.out.v.data, version |-> r.out.v.version]),
                                 header)
                   ELSE Response(op, IF r.res = "NotFound" THEN 404 ELSE 500, None, header)
        /\ UNCHANGED <<lockVars, validation, transitVars, mgr, storage, issued, serverVars, engineVars>>

\* secrets_put_handler.
SecretsPutHandler(header, path, req) ==
    LET auth == Authenticated(storage, header)
        op == "PUT /v1/secrets"
        r == put(secrets.v, db, now, path, req.data, [ttl |-> None, cas |-> req.cas])
    IN  /\ serving
        /\ IF auth.status # 200
           THEN last' = Response(op, auth.status, None, header) /\ UNCHANGED db
           ELSE IF ~secrets.some
           THEN last' = Response(op, 503, None, header) /\ UNCHANGED db
           ELSE /\ r.res = "Ok" => WithinBound(path, r.out.v)
                /\ db' = r.db
                /\ last' = Response(op,
                                    CASE r.res = "Ok" -> 200
                                      [] r.res = "VersionMismatch" -> 409
                                      [] r.res = "InvalidPath" -> 400
                                      [] OTHER -> 500,
                                    IF r.res = "Ok" THEN Some([version |-> r.out.v]) ELSE None,
                                    header)
        /\ UNCHANGED <<lockVars, validation, transitVars, mgr, storage, issued, serverVars, now, calls>>

\* secrets_delete_handler.
SecretsDeleteHandler(header, path) ==
    LET auth == Authenticated(storage, header)
        op == "DELETE /v1/secrets"
        r == delete(db, now, path)
    IN  /\ serving
        /\ IF auth.status # 200
           THEN last' = Response(op, auth.status, None, header) /\ UNCHANGED db
           ELSE IF ~secrets.some
           THEN last' = Response(op, 503, None, header) /\ UNCHANGED db
           ELSE /\ db' = r.db
                /\ last' = Response(op, IF r.res = "Ok" THEN 204 ELSE 500, None, header)
        /\ UNCHANGED <<lockVars, validation, transitVars, mgr, storage, issued, serverVars, now, calls>>

\* secrets_list_root_handler.
SecretsListRootHandler(header) ==
    LET auth == Authenticated(storage, header)
        op == "GET /v1/secrets/"
    IN  /\ serving
        /\ last' = IF auth.status # 200 THEN Response(op, auth.status, None, header)
                   ELSE IF ~secrets.some THEN Response(op, 503, None, header)
                   ELSE Response(op, 200, Some([keys |-> list(db, <<>>)]), header)
        /\ UNCHANGED <<lockVars, validation, transitVars, mgr, storage, issued, serverVars, engineVars>>

\* The keys a client posts to /v1/sys/unseal: the shares of this vault, a
\* share too short to parse, one of another length, and a body that is not hex.
UnsealKeys ==
    {Some(s) : s \in OwnShares \cup ShortShares \cup LongShares} \cup {None}

ServerNext ==
    \/ \E dev \in BOOLEAN, key \in KeyDraws, token \in TokenDraws : Main(dev, key, token)
    \/ Stop
    \/ \E req \in InitRequests, key \in KeyDraws, token \in TokenDraws :
          \E polys \in Polys(req.threshold) : InitHandler(req, key, polys, token)
    \/ \E key \in UnsealKeys : UnsealHandler(key)
    \/ UnsealHandlerEnsure
    \/ \E header \in Headers : SealHandler(header)
    \/ SealHandlerClear
    \/ \E header \in Headers : SecretsGetHandler(header, RequestPath)
    \/ \E header \in Headers, req \in SecretPutRequests :
          SecretsPutHandler(header, RequestPath, req)
    \/ \E header \in Headers : SecretsDeleteHandler(header, RequestPath)
    \/ \E header \in Headers : SecretsListRootHandler(header)

\* The server process on one data directory, started and stopped any number
\* of times, its requests interleaved at the lock boundaries.
SpecServer == ServerInit /\ [][ServerNext]_vars

\* ------------------------------------------------------------------ claims

\* C1: after initialize({n,k}), submitting k distinct shares returned by that
\* initialize in any order from an empty pending set: each of the first k-1
\* unseal calls returns sealed=true with progress = number of shares submitted
\* and leaves the status Sealed; the k-th leaves the status Unsealed with the
\* master key generated by initialize.
C1_UnsealWithThresholdShares ==
    (mgr.status = "Sealed" /\ issued.some /\ OwnPending) =>
        \A s \in OwnShares :
            s.index \notin mgr.pending_indices =>
                LET r == unseal(mgr, s)
                    j == Len(mgr.pending_shares) + 1
                IN  IF j < mgr.threshold
                    THEN /\ r.res = "Ok"
                         /\ r.out = Some([sealed |-> TRUE, threshold |-> mgr.threshold,
                                          progress |-> j])
                         /\ Status(r.mgr) = "Sealed"
                         /\ ~master_key(r.mgr).some
                    ELSE /\ j = mgr.threshold
                         /\ r.res = "Ok"
                         /\ Status(r.mgr) = "Unsealed"
                         /\ master_key(r.mgr) = Some(issued.v.key)

\* C1 witness: the k-th own share of a {MaxShares, MaxThreshold} vault has just unsealed it.
C1_Witness ==
    /\ last.op = "unseal"
    /\ last.res = "Ok"
    /\ issued.some
    /\ Len(issued.v.shares) = MaxShares
    /\ mgr.threshold = MaxThreshold
    /\ ~mgr.dev_mode
    /\ Status(mgr) = "Unsealed"
    /\ master_key(mgr) = Some(issued.v.key)

\* C2: unseal never installs anything but the vault's own master key, and when
\* the threshold is reached with shares that all come from another vault's
\* initialization the call returns ReconstructionFailed, the status stays
\* Sealed, no master key is installed and the pending state is empty.
C2_ForeignSharesNeverUnseal ==
    (mgr.status = "Sealed") =>
        \A s \in ShareInputs :
            LET r == unseal(mgr, s)
                thresholdReached ==
                    /\ s.index \notin mgr.pending_indices
                    /\ SharkTryFrom(s.data).some
                    /\ Len(mgr.pending_shares) + 1 >= mgr.threshold
                rejectedAndCleared ==
                    /\ r.res = "ReconstructionFailed"
                    /\ Status(r.mgr) = "Sealed"
                    /\ ~master_key(r.mgr).some
                    /\ r.mgr.pending_shares = <<>>
                    /\ r.mgr.pending_indices = {}
            IN  /\ Status(r.mgr) = "Unsealed" =>
                      /\ issued.some
                      /\ master_key(r.mgr) = Some(issued.v.key)
                /\ \/ ~thresholdReached
                   \/ rejectedAndCleared
                   \/ ~FromOtherVault(Append(mgr.pending_shares, SharkTryFrom(s.data).v))

\* C2 witness: a {MaxShares, MaxThreshold} vault holds shares of another vault,
\* submitted by unseal, and the share of that vault that reaches the threshold
\* is rejected.
C2_Witness ==
    /\ last.op = "unseal"
    /\ last.res = "Ok"
    /\ issued.some
    /\ Len(issued.v.shares) = MaxShares
    /\ mgr.threshold = MaxThreshold
    /\ Status(mgr) = "Sealed"
    /\ Len(mgr.pending_shares) = MaxThreshold - 1
    /\ \E s \in ShareInputs :
          /\ s.index \notin mgr.pending_indices
          /\ SharkTryFrom(s.data).some
          /\ FromOtherVault(Append(mgr.pending_shares, SharkTryFrom(s.data).v))
          /\ unseal(mgr, s).res = "ReconstructionFailed"

\* C3: in every reachable state, failed calls and a lost HMAC record included,
\* master_key() is Some exactly when status() is Unsealed.
C3_KeyIffUnsealed ==
    master_key(mgr).some <=> (Status(mgr) = "Unsealed")

\* C3 witness: seal() has just been called on an initialized non-dev vault, which
\* is Sealed and holds no master key.
C3_Witness ==
    /\ last.op = "seal"
    /\ last.res = "Ok"
    /\ storage.initialized_at.some
    /\ ~mgr.dev_mode
    /\ Status(mgr) = "Sealed"
    /\ ~master_key(mgr).some

\* C4: initialize succeeds exactly when the status is Uninitialized and the
\* configuration has threshold >= 1 and shares >= threshold; it then returns
\* cfg.shares shares and leaves status Sealed with threshold cfg.threshold.  On
\* Sealed or Unsealed it returns AlreadyInitialized, on Uninitialized with an
\* invalid configuration InvalidConfig, and a failed call changes neither the
\* in-memory state (status, threshold, pending) nor the persisted records.
C4_Initialize ==
    \A cfg \in Configs, key \in KeyDraws, token \in TokenDraws :
        \A polys \in Polys(cfg.threshold) :
            LET r     == initialize(mgr, storage, cfg, key, polys, token)
                valid == cfg.threshold >= 1 /\ cfg.shares >= cfg.threshold
            IN  /\ (r.res = "Ok") <=> (Status(mgr) = "Uninitialized" /\ valid)
                /\ r.res = "Ok" =>
                      /\ Len(r.out.v.shares) = cfg.shares
                      /\ Status(r.mgr) = "Sealed"
                      /\ r.mgr.threshold = cfg.threshold
                /\ Status(mgr) \in {"Sealed", "Unsealed"} => r.res = "AlreadyInitialized"
                /\ (Status(mgr) = "Uninitialized" /\ ~valid) => r.res = "InvalidConfig"
                /\ r.res # "Ok" => (r.mgr = mgr /\ r.storage = storage)

\* C4 witness: initialize has just been refused on an initialized vault that holds
\* a pending share.
C4_Witness ==
    /\ last.op = "initialize"
    /\ last.res = "AlreadyInitialized"
    /\ storage.initialized_at.some
    /\ Status(mgr) = "Sealed"
    /\ mgr.pending_shares # <<>>

\* C5: whenever an unseal call reaches the threshold and the reconstruction is
\* rejected (recovery fails, the expected HMAC is missing, or the HMAC differs),
\* the call returns ReconstructionFailed and pending_shares and pending_indices
\* are both empty afterwards.
C5_RejectionClearsPending ==
    (last.op = "unseal" /\ last.res = "ReconstructionFailed") =>
        /\ mgr.pending_shares = <<>>
        /\ mgr.pending_indices = {}

\* C6: on a Sealed vault, a share whose index is already pending is refused with
\* DuplicateShare(index) and a share whose data does not parse with InvalidShare;
\* either way pending shares, pending indices, status and master key are as before.
C6_RejectedShareChangesNothing ==
    (mgr.status = "Sealed") =>
        \A s \in ShareInputs :
            LET r == unseal(mgr, s)
            IN  /\ s.index \in mgr.pending_indices =>
                      /\ r.res = "DuplicateShare"
                      /\ r.out = Some(s.index)
                      /\ r.mgr = mgr
                /\ (s.index \notin mgr.pending_indices /\ Len(s.data) < 2) =>
                      /\ r.res = "InvalidShare"
                      /\ r.mgr = mgr

\* C6 witness: a duplicate share has just been refused while a share is pending.
C6_Witness ==
    /\ last.op = "unseal"
    /\ last.res = "DuplicateShare"
    /\ Status(mgr) = "Sealed"
    /\ Len(mgr.pending_shares) = 1
    /\ Cardinality(mgr.pending_indices) = 1
    /\ mgr.threshold = MaxThreshold

\* C7: the UnsealProgress returned by the unseal call that completes the
\* threshold reports sealed=false, threshold=k and progress=k.
C7_CompletingProgress ==
    (last.op = "unseal" /\ last.res = "Ok" /\ Status(mgr) = "Unsealed") =>
        last.out = Some([sealed |-> FALSE, threshold |-> mgr.threshold,
                         progress |-> mgr.threshold])

\* C8: seal() outside dev mode leaves no master key, no pending shares or
\* indices and status Sealed; in dev mode it changes nothing: the status stays
\* Unsealed, the master key stays available and dev_mode stays true.
C8_Seal ==
    LET m2 == seal(mgr)
    IN  /\ ~mgr.dev_mode =>
              /\ ~master_key(m2).some
              /\ m2.pending_shares = <<>>
              /\ m2.pending_indices = {}
              /\ Status(m2) = "Sealed"
              /\ ~m2.dev_mode
        /\ mgr.dev_mode =>
              /\ m2 = mgr
              /\ Status(m2) = "Unsealed"
              /\ master_key(m2).some
              /\ m2.dev_mode

\* C8 witness: seal() has just been called on a dev-mode vault.
C8_Witness ==
    /\ last.op = "seal"
    /\ last.res = "Ok"
    /\ mgr.dev_mode
    /\ Status(mgr) = "Unsealed"
    /\ master_key(mgr).some

\* C9: enable_dev_mode succeeds exactly when the status is Uninitialized and
\* then leaves status Unsealed, dev_mode true, threshold 1 and the generated
\* master key installed; on Sealed or Unsealed it returns AlreadyInitialized and
\* changes neither the in-memory state nor any persisted record.
C9_EnableDevMode ==
    \A key \in KeyDraws, token \in Tokens :
        LET r == enable_dev_mode(mgr, storage, key, token)
        IN  /\ (r.res = "Ok") <=> (Status(mgr) = "Uninitialized")
            /\ r.res = "Ok" =>
                  /\ Status(r.mgr) = "Unsealed"
                  /\ r.mgr.dev_mode
                  /\ r.mgr.threshold = 1
                  /\ master_key(r.mgr) = Some(key)
            /\ Status(mgr) \in {"Sealed", "Unsealed"} =>
                  /\ r.res = "AlreadyInitialized"
                  /\ r.mgr = mgr
                  /\ r.storage = storage

\* C9 witness: enable_dev_mode has just been refused on a vault that initialize
\* set up and that its own shares unsealed.
C9_Witness ==
    /\ last.op = "enable_dev_mode"
    /\ last.res = "AlreadyInitialized"
    /\ issued.some
    /\ storage.root_token_hash = Some(hash_token(issued.v.root_token))
    /\ ~storage.dev_mode_master_key.some
    /\ Status(mgr) = "Unsealed"
    /\ master_key(mgr) = Some(issued.v.key)

RECURSIVE UnsealAll(_, _)
\* The manager after submitting the shares of seq one after the other.
UnsealAll(m, seq) ==
    IF seq = <<>> THEN m
    ELSE UnsealAll(unseal(m, Head(seq)).mgr, Tail(seq))

\* The ways of submitting k distinct shares returned by initialize.
OwnSubmissions(k) ==
    {seq \in [1 .. k -> OwnShares] : \A i, j \in 1 .. k : seq[i] = seq[j] => i = j}

\* C10: the status of a manager opened on a data directory follows from the
\* persisted records: no initialized_at gives Uninitialized; initialized_at
\* without dev_mode_master_key gives Sealed with empty pending state and the
\* stored threshold, after which any threshold-many shares of the original
\* initialize unseal it to the original key and the original root token
\* verifies; with dev_mode_master_key it gives Unsealed, dev_mode true and the
\* master key of before the restart.
C10_OpenedOnExistingData ==
    (last.op = "new") =>
        /\ ~storage.initialized_at.some =>
              /\ Status(mgr) = "Uninitialized"
              /\ ~master_key(mgr).some
        /\ (storage.initialized_at.some /\ ~storage.dev_mode_master_key.some) =>
              /\ Status(mgr) = "Sealed"
              /\ ~mgr.dev_mode
              /\ mgr.pending_shares = <<>>
              /\ mgr.pending_indices = {}
              /\ mgr.threshold = storage.shamir_threshold.v[1]
              /\ issued.some
              /\ OwnSubmissions(mgr.threshold) # {}
              /\ \A seq \in OwnSubmissions(mgr.threshold) :
                    LET m2 == UnsealAll(mgr, seq)
                    IN  /\ Status(m2) = "Unsealed"
                        /\ master_key(m2) = Some(issued.v.key)
              /\ verify_root_token(storage, issued.v.root_token).out = Some(TRUE)
        /\ (storage.initialized_at.some /\ storage.dev_mode_master_key.some) =>
              /\ Status(mgr) = "Unsealed"
              /\ mgr.dev_mode
              /\ issued.some
              /\ master_key(mgr) = Some(issued.v.key)

\* C10 witness: a manager has just been opened on the records of a
\* {MaxShares, MaxThreshold} initialization and is Sealed.
C10_Witness ==
    /\ last.op = "new"
    /\ storage.initialized_at.some
    /\ ~storage.dev_mode_master_key.some
    /\ storage.shamir_total = Some(<<MaxShares>>)
    /\ storage.shamir_threshold = Some(<<MaxThreshold>>)
    /\ Status(mgr) = "Sealed"
    /\ mgr.threshold = MaxThreshold

\* C11: when the server is started with --dev on a data directory on which an
\* earlier run enabled dev mode, the start completes: the server is serving,
\* the vault is Unsealed in dev mode, the secrets engine is installed, the
\* original root token authenticates and every secret written before the
\* restart is readable.
C11_DevModeRestart ==
    (last.op = "main" /\ last.dev /\ storage.dev_mode_master_key.some) =>
        /\ serving
        /\ Status(mgr) = "Unsealed"
        /\ mgr.dev_mode
        /\ secrets.some
        /\ Authenticated(storage, Some(issued.v.root_token)).status = 200
        /\ \A r \in db.secrets :
              ~r.deleted_at.some => get(secrets.v, db, now, r.path).res = "Ok"

\* C12: POST /v1/sys/seal requires authentication: the request that moved the
\* vault from Unsealed to Sealed (it has run seal and has not yet cleared the
\* secrets engine) carried a token the auth service accepts.
C12_SealRequiresToken ==
    (handlers.seal.pc = "clear" /\ Status(mgr) = "Sealed") =>
        Authenticated(storage, handlers.seal.token).status = 200

\* C13: under any interleaving of seal, unseal and secrets requests, in every
\* reachable server state where the seal status is Sealed the secrets engine
\* slot is None, so that no secrets request is served while Sealed.
C13_SealedHasNoEngine ==
    (serving /\ Status(mgr) = "Sealed") => ~secrets.some

\* The engine of the sequential and concurrent histories.
TestEngine == SecretsEngine(TestKey)

\* The version numbers stored for a path.
StoredVersions(d, path) == {r.version : r \in {q \in d.secret_versions : q.path = path}}

\* The current version of a path, 0 when it has no record.
CurrentVersion(d, path) ==
    IF SelectSecret(d, path).some THEN SelectSecret(d, path).v.version ELSE 0

\* The rows of both tables that belong to a path.
RowsOf(d, path) ==
    [secrets |-> {r \in d.secrets : r.path = path},
     secret_versions |-> {r \in d.secret_versions : r.path = path}]

\* C14: in a sequential history of put, delete, undelete, rollback and
\* purge_deleted, every path with a record stores exactly the versions
\* 1..current_version; a successful put or rollback returns the previous
\* current_version + 1 (1 for a path without record) and get then returns its
\* data under that version; and no other call (delete, undelete, a purge
\* that keeps the path, a failed put or rollback) changes what is stored for
\* the path, so get keeps returning the last successful put or rollback.
C14_VersionsAreContiguous ==
    /\ \A r \in db.secrets : StoredVersions(db, r.path) = 1 .. r.version
    /\ \A r \in db.secret_versions : SelectSecret(db, r.path).some
    /\ \A req \in PutRequests :
          LET r == put(TestEngine, db, now, req.path, req.data, req.options)
              g == get(TestEngine, r.db, now, req.path)
          IN  IF r.res = "Ok"
              THEN /\ r.out = Some(CurrentVersion(db, req.path) + 1)
                   /\ g.res = "Ok"
                   /\ g.out.v.data = req.data
                   /\ g.out.v.version = r.out.v
              ELSE r.db = db
    /\ \A path \in Paths, version \in 1 .. MaxVersion :
          LET r == rollback(TestEngine, db, now, path, version)
              g == get(TestEngine, r.db, now, path)
          IN  IF r.res = "Ok"
              THEN /\ r.out = Some(CurrentVersion(db, path) + 1)
                   /\ g.res = "Ok"
                   /\ g.out.v.version = r.out.v
              ELSE r.db = db
    /\ \A path \in Paths :
          /\ delete(db, now, path).db.secret_versions = db.secret_versions
          /\ undelete(db, now, path).db.secret_versions = db.secret_versions
          /\ CurrentVersion(delete(db, now, path).db, path) = CurrentVersion(db, path)
          /\ CurrentVersion(undelete(db, now, path).db, path) = CurrentVersion(db, path)
    /\ \A older_than \in 0 .. now, path \in Paths :
          LET r == purge_deleted(db, now, older_than, TRUE)
          IN  SelectSecret(r.db, path).some => RowsOf(r.db, path) = RowsOf(db, path)

\* C14 witness: a third version was stored by a put and get returns it.
C14_Witness ==
    /\ last.op = "put" /\ last.res = "Ok" /\ last.out = Some(3)
    /\ StoredVersions(db, <<"a">>) = {1, 2, 3}
    /\ get(TestEngine, db, now, <<"a">>).res = "Ok"
    /\ get(TestEngine, db, now, <<"a">>).out.v.version = 3


\* C15: a put with cas = Some(v) that returns Ok read a record that exists, is
\* not deleted and has current_version = v, and it returns v + 1; and of two
\* puts with the same cas = Some(v) on the same path whose storage calls
\* interleave, at most one returns Ok.
C15_CasPutsExcludeEachOther ==
    /\ \A c \in Callers :
          (calls[c].pc = "done" /\ calls[c].res = "Ok" /\ calls[c].cas.some) =>
              /\ calls[c].seen.some
              /\ ~calls[c].seen.v.deleted_at.some
              /\ calls[c].seen.v.version = calls[c].cas.v
              /\ calls[c].out = Some(calls[c].cas.v + 1)
    /\ \A c1 \in Callers, c2 \in Callers :
          (/\ c1 # c2
           /\ calls[c1].pc = "done" /\ calls[c2].pc = "done"
           /\ calls[c1].path = calls[c2].path
           /\ calls[c1].cas.some /\ calls[c1].cas = calls[c2].cas)
          => ~(calls[c1].res = "Ok" /\ calls[c2].res = "Ok")

\* C15 witness: both callers read version 1 for a put with cas = Some(1); the
\* first returned Ok and the second failed on its INSERT.
C15_Witness ==
    /\ calls[1].pc = "done" /\ calls[2].pc = "done"
    /\ calls[1].cas = Some(1) /\ calls[2].cas = Some(1)
    /\ calls[1].seen.some /\ calls[2].seen = calls[1].seen
    /\ calls[1].res = "Ok" /\ calls[1].out = Some(2)
    /\ calls[2].res = "Storage"


\* C16: a put whose check-and-set fails writes nothing.  On a live record
\* whose current_version differs from cas it returns VersionMismatch with
\* expected = cas and found = current_version; on a path without record it
\* returns NotFound; in both cases the tables are unchanged, so the record's
\* version, the stored versions and what get returns are as before.
C16_FailedCasWritesNothing ==
    \A req \in {q \in PutRequests : q.options.cas.some /\ validate_path(q.path)} :
        LET r == put(TestEngine, db, now, req.path, req.data, req.options)
            row == SelectSecret(db, req.path)
        IN  /\ (row.some /\ ~row.v.deleted_at.some /\ row.v.version # req.options.cas.v) =>
                  /\ r.res = "VersionMismatch"
                  /\ r.out = Some([expected |-> req.options.cas.v,
                                   found |-> row.v.version])
            /\ ~row.some => r.res = "NotFound"
            /\ r.res \in {"VersionMismatch", "NotFound"} =>
                  /\ r.db = db
                  /\ get(TestEngine, r.db, now, req.path) = get(TestEngine, db, now, req.path)

\* C16 witness: a put with a wrong cas was refused on a path whose version 1
\* get still returns.
C16_Witness ==
    /\ last.op = "put" /\ last.res = "VersionMismatch"
    /\ CurrentVersion(db, <<"a">>) = 1
    /\ get(TestEngine, db, now, <<"a">>).res = "Ok"
    /\ get(TestEngine, db, now, <<"a">>).out.v.version = 1


\* The times from now on, one second past the end of the clock included.
Later == now .. (MaxTime + 1)

\* C17: soft-delete lifecycle.  After delete(path) on a live record, get fails
\* with Deleted while get_version returns for every version what it returned
\* before the delete (the stored data, for every version that has not
\* expired); after undelete, get returns the same data and version as it
\* would have without the delete.  delete on a deleted path fails with
\* Deleted, delete and undelete on a path without record fail with NotFound,
\* undelete on a live path fails with NotDeleted, each leaving the tables
\* unchanged.
C17_SoftDeleteLifecycle ==
    \A path \in Paths :
        LET row == SelectSecret(db, path)
            del == delete(db, now, path)
            und == undelete(db, now, path)
        IN  /\ (row.some /\ ~row.v.deleted_at.some) =>
                  /\ del.res = "Ok"
                  /\ und.res = "NotDeleted" /\ und.db = db
                  /\ \A t \in Later :
                        /\ get(TestEngine, del.db, t, path).res = "Deleted"
                        /\ \A v \in 1 .. (MaxVersion + 1) :
                              get_version(TestEngine, del.db, t, path, v)
                                  = get_version(TestEngine, db, t, path, v)
                        /\ \A v \in StoredVersions(db, path) :
                              get_version(TestEngine, del.db, t, path, v).res
                                  \in {"Ok", "Expired"}
                        /\ \A t2 \in t .. (MaxTime + 1) :
                              LET back == undelete(del.db, t, path)
                              IN  /\ back.res = "Ok"
                                  /\ get(TestEngine, back.db, t2, path)
                                         = get(TestEngine, db, t2, path)
            /\ (row.some /\ row.v.deleted_at.some) =>
                  /\ del.res = "Deleted" /\ del.db = db
                  /\ und.res = "Ok"
            /\ ~row.some =>
                  /\ del.res = "NotFound" /\ del.db = db
                  /\ und.res = "NotFound" /\ und.db = db

\* C17 witness: a path with two versions was deleted and restored, and get
\* returns its second version.
C17_Witness ==
    /\ last.op = "undelete" /\ last.res = "Ok"
    /\ CurrentVersion(db, <<"a">>) = 2
    /\ get(TestEngine, db, now, <<"a">>).res = "Ok"
    /\ get(TestEngine, db, now, <<"a">>).out.v.version = 2


\* The TTLs of PutOptions, in seconds.
TtlInputs == {None, Some(0), Some(1), Some(2)}

\* C18: get_version returns Expired exactly when the version's expires_at is
\* present and strictly less than the current time, and get does so for the
\* current version of a live path; a put at time t with TTL ttl stores
\* expires_at = t + ttl, a put without TTL stores none, so that version never
\* expires; and a version that is Expired now is Expired at every later time.
C18_ExpiresStrictlyAfter ==
    /\ \A r \in db.secret_versions :
          LET expired(t) == r.expires_at.some /\ r.expires_at.v < t
          IN  /\ (get_version(TestEngine, db, now, r.path, r.version).res = "Expired")
                     <=> expired(now)
              /\ ~expired(now) =>
                     get_version(TestEngine, db, now, r.path, r.version).res = "Ok"
              /\ \A t \in Later :
                     /\ expired(now) =>
                           get_version(TestEngine, db, t, r.path, r.version).res = "Expired"
                     /\ ~r.expires_at.some =>
                           get_version(TestEngine, db, t, r.path, r.version).res = "Ok"
    /\ \A r \in db.secrets :
          ~r.deleted_at.some =>
              get(TestEngine, db, now, r.path)
                  = get_version(TestEngine, db, now, r.path, r.version)
    /\ \A path \in Paths, ttl \in TtlInputs :
          LET r == put(TestEngine, db, now, path, "d2", [ttl |-> ttl, cas |-> None])
          IN  r.res = "Ok" =>
                 /\ SelectVersion(r.db, path, r.out.v).v.expires_at
                        = (IF ttl.some THEN Some(now + ttl.v) ELSE None)
                 /\ \A t \in Later :
                        (get(TestEngine, r.db, t, path).res = "Expired")
                            <=> (ttl.some /\ now + ttl.v < t)

\* C18 witness: a version put with a TTL of one second at time 0 is read at
\* time 2 and is Expired, while a version without TTL is readable.
C18_Witness ==
    /\ now = 2
    /\ \E r \in db.secret_versions :
          /\ r.expires_at = Some(1)
          /\ get_version(TestEngine, db, now, r.path, r.version).res = "Expired"
          /\ get_version(TestEngine, db, 1, r.path, r.version).res = "Ok"
    /\ \E r \in db.secret_versions :
          /\ r.expires_at = None
          /\ get_version(TestEngine, db, now, r.path, r.version).res = "Ok"


\* The version numbers a rollback is asked for: stored ones and missing ones.
VersionInputs == 0 .. (MaxVersion + 1)

\* C19: rollback(path, v) on a live path whose version v is readable returns
\* the current version plus one; get then returns that new version with the
\* data of version v, and every earlier version is stored as before.  When
\* version v is missing or expired, or the path is deleted, rollback fails,
\* and a failed rollback leaves both tables unchanged.
C19_RollbackCopiesVersion ==
    \A path \in Paths, v \in VersionInputs :
        LET old == get_version(TestEngine, db, now, path, v)
            row == SelectSecret(db, path)
            r == rollback(TestEngine, db, now, path, v)
            read == get(TestEngine, r.db, now, path)
        IN  /\ (row.some /\ ~row.v.deleted_at.some /\ old.res = "Ok") =>
                  /\ r.res = "Ok"
                  /\ r.out = Some(row.v.version + 1)
                  /\ read.res = "Ok"
                  /\ read.out.v.version = row.v.version + 1
                  /\ read.out.v.data = old.out.v.data
                  /\ CurrentVersion(r.db, path) = row.v.version + 1
                  /\ RowsOf(db, path).secret_versions
                        = {x \in RowsOf(r.db, path).secret_versions :
                              x.version <= row.v.version}
                  /\ \A other \in Paths \ {path} :
                        RowsOf(r.db, other) = RowsOf(db, other)
            /\ (old.res \in {"VersionNotFound", "Expired"}) => r.res = old.res
            /\ (row.some /\ row.v.deleted_at.some /\ old.res = "Ok") =>
                  r.res = "Deleted"
            /\ r.res # "Ok" => r.db = db

\* C19 witness: a rollback to version 1 has created version 3, whose data is
\* the data of version 1 and not the data of version 2.
C19_Witness ==
    /\ last.op = "rollback" /\ last.res = "Ok" /\ last.out = Some(3)
    /\ get(TestEngine, db, now, <<"a">>).res = "Ok"
    /\ get(TestEngine, db, now, <<"a">>).out.v.version = 3
    /\ get(TestEngine, db, now, <<"a">>).out.v.data
          = get_version(TestEngine, db, now, <<"a">>, 1).out.v.data
    /\ get_version(TestEngine, db, now, <<"a">>, 2).res = "Ok"
    /\ get_version(TestEngine, db, now, <<"a">>, 2).out.v.data
          # get_version(TestEngine, db, now, <<"a">>, 1).out.v.data


\* The paths whose deleted_at is strictly less than now - older_than, none
\* when older_than is larger than the current time.
DeletedLongerThan(d, t, older_than) ==
    IF older_than > t THEN {}
    ELSE {r.path : r \in {q \in d.secrets :
                              q.deleted_at.some /\ q.deleted_at.v < t - older_than}}

\* C20: purge_deleted(older_than) removes the record and the versions of
\* exactly the paths whose deleted_at is strictly less than now - older_than
\* and returns their count, for every older_than; when older_than is larger
\* than the current time no path qualifies and nothing is removed.  Stated of
\* the call that has just returned a count: with older_than beyond the
\* current time the count is 0; and of every call with older_than within the
\* current time: it removes exactly the paths deleted longer ago.
C20_PurgeRemovesExactlyTheOld ==
    /\ (last.op = "purge_deleted" /\ last.res = "Ok") =>
          (last.older_than > now => last.out = Some(0))
    /\ \A older_than \in 0 .. now :
          LET r == purge_deleted(db, now, older_than, FALSE)
              old == DeletedLongerThan(db, now, older_than)
          IN  /\ r.res = "Ok" /\ r.out = Some(Cardinality(old))
              /\ r.db = [secrets |-> {x \in db.secrets : x.path \notin old},
                         secret_versions |->
                             {x \in db.secret_versions : x.path \notin old}]

\* ------------------------------------------------------- path validation

\* Longest path submitted.
MaxLen == 3

\* The characters the submitted paths are drawn from.
PathAlphabet == {"a", "-", "/", ".", "U+00E9"}

RECURSIVE PathsOfLen(_)
PathsOfLen(n) ==
    IF n = 0 THEN {<<>>}
    ELSE {Append(p, c) : p \in PathsOfLen(n - 1), c \in PathAlphabet}

\* Every path of at most MaxLen characters.
SubmittedPaths == UNION {PathsOfLen(n) : n \in 0 .. MaxLen}

\* A caller holds a path and has not called the engine yet.
PathsInit ==
    /\ NoVault
    /\ EngineUnused
    /\ \E path \in SubmittedPaths :
          last = [op |-> "path", res |-> "Ok", out |-> None, path |-> path]

\* SecretsEngine::put on the path held.
PathPut ==
    LET r == put(SecretsEngine(TestKey), db, now, last.path, "d1", DefaultOptions)
    IN  /\ last.op \in {"path", "get"}
        /\ db = EmptyDb
        /\ db' = r.db
        /\ last' = [op |-> "put", res |-> r.res,
                    out |-> IF r.res = "Ok" THEN r.out ELSE None,
                    path |-> last.path]
        /\ UNCHANGED <<lockVars, validation, transitVars, mgr, storage, issued, serverVars, now, calls>>

\* SecretsEngine::get on the path held.
PathGet ==
    LET r == get(SecretsEngine(TestKey), db, now, last.path)
    IN  /\ last.op \in {"path", "put"}
        /\ last' = [op |-> "get", res |-> r.res,
                    out |-> IF r.res = "Ok" THEN Some(r.out.v.data) ELSE None,
                    path |-> last.path]
        /\ UNCHANGED <<lockVars, validation, transitVars, mgr, storage, issued, serverVars, db, now, calls>>

PathsNext == PathPut \/ PathGet

SpecPaths == PathsInit /\ [][PathsNext]_vars

\* C21: put and get reject with InvalidPath, without touching storage, every
\* path that is empty, starts or ends with '/', contains "//" or contains a
\* character outside [A-Za-z0-9_/-]; every other path passes validation.
C21_InvalidPathsRejected ==
    LET path == last.path
        invalid ==
            \/ Len(path) = 0
            \/ path[1] = "/"
            \/ path[Len(path)] = "/"
            \/ \E i \in 1 .. (Len(path) - 1) : path[i] = "/" /\ path[i + 1] = "/"
            \/ \E i \in 1 .. Len(path) :
                  path[i] \notin {"a", "b", "0", "-", "_", "/"}
    IN  last.op \in {"put", "get"} =>
            IF invalid
            THEN last.res = "InvalidPath" /\ db = EmptyDb
            ELSE last.res # "InvalidPath"

\* ---------------------------------------------------------- transit engine

\* TransitEngine::new: the engine holds the master key it was given.
TransitEngine(key) == [master_key |-> key]

\* aead::encrypt: AES-256-GCM under a random nonce.  The output opens only
\* under the same key and associated data.
aead_encrypt(key, nonce, plaintext, aad) ==
    [nonce |-> nonce, key |-> key, aad |-> aad, plaintext |-> plaintext]

\* aead::decrypt: None when the tag does not verify.
aead_decrypt(key, ciphertext, aad) ==
    IF ciphertext.key = key /\ ciphertext.aad = aad
    THEN Some(ciphertext.plaintext) ELSE None

\* TransitEngine::derive_version_key: HKDF of the master key with
\* info "egide-transit-v1:{name}:{version}".
derive_version_key(e, name, version) ==
    <<"egide-transit-v1:", name, version, e.master_key>>

\* TransitEngine::encrypt_key_material.
encrypt_key_material(e, name, version, key, nonce) ==
    aead_encrypt(derive_version_key(e, name, version), nonce, key,
                 <<"transit-key:", name, version>>)

\* TransitEngine::decrypt_key_material.
decrypt_key_material(e, name, version, encrypted) ==
    aead_decrypt(derive_version_key(e, name, version), encrypted,
                 <<"transit-key:", name, version>>)

\* SELECT ... FROM transit_keys WHERE name = ?
SelectKey(d, name) ==
    IF \E r \in d.transit_keys : r.name = name
    THEN Some(CHOOSE r \in d.transit_keys : r.name = name)
    ELSE None

\* SELECT key_material, nonce FROM transit_key_versions
\* WHERE name = ? AND version = ?
SelectKeyVersion(d, name, version) ==
    IF \E r \in d.transit_key_versions : r.name = name /\ r.version = version
    THEN Some(CHOOSE r \in d.transit_key_versions :
                 r.name = name /\ r.version = version)
    ELSE None

\* INSERT INTO transit_keys: fails when the name is already a row (PRIMARY KEY).
InsertKey(d, row) ==
    IF SelectKey(d, row.name).some
    THEN [ok |-> FALSE, db |-> d]
    ELSE [ok |-> TRUE, db |-> [d EXCEPT !.transit_keys = @ \cup {row}]]

\* INSERT INTO transit_key_versions: fails when (name, version) is already a
\* row (PRIMARY KEY) or the name has no row in transit_keys (FOREIGN KEY).
InsertKeyVersion(d, row) ==
    IF SelectKeyVersion(d, row.name, row.version).some \/ ~SelectKey(d, row.name).some
    THEN [ok |-> FALSE, db |-> d]
    ELSE [ok |-> TRUE, db |-> [d EXCEPT !.transit_key_versions = @ \cup {row}]]

\* UPDATE transit_keys SET latest_version = ?, updated_at = ? WHERE name = ?
UpdateLatestVersion(d, name, version) ==
    [d EXCEPT !.transit_keys =
        {IF r.name = name THEN [r EXCEPT !.latest_version = version] ELSE r : r \in @}]

\* UPDATE transit_keys SET min_encryption_version = ?,
\* min_decryption_version = ?, deletion_allowed = ?, updated_at = ? WHERE name = ?
UpdateConfig(d, name, min_enc, min_dec, del) ==
    [d EXCEPT !.transit_keys =
        {IF r.name = name
         THEN [r EXCEPT !.min_encryption_version = min_enc,
                        !.min_decryption_version = min_dec,
                        !.deletion_allowed = del]
         ELSE r : r \in @}]

\* DELETE FROM transit_key_versions WHERE name = ?
DeleteKeyVersions(d, name) ==
    [d EXCEPT !.transit_key_versions = {r \in @ : r.name # name}]

\* DELETE FROM transit_keys WHERE name = ? (ON DELETE CASCADE on the versions).
DeleteKey(d, name) ==
    [transit_keys |-> {r \in d.transit_keys : r.name # name},
     transit_key_versions |-> {r \in d.transit_key_versions : r.name # name}]

\* TransitEngine::validate_name.
validate_name(name) ==
    /\ Len(name) > 0
    /\ Len(name) <= 128
    /\ \A i \in 1 .. Len(name) : is_alphanumeric(name[i]) \/ name[i] \in {"-", "_"}

\* KeyConfig::new.  key_type, supports_derivation and exportable are stored
\* and returned but read by no operation; they are left out.
DefaultKeyConfig ==
    [supports_encryption |-> TRUE, supports_decryption |-> TRUE,
     deletion_allowed |-> FALSE]

\* TransitEngine::get_key_material.
get_key_material(e, d, name, version) ==
    LET row == SelectKeyVersion(d, name, version)
    IN  IF ~row.some
        THEN [res |-> "VersionNotFound",
              out |-> Some([name |-> name, version |-> version])]
        ELSE LET key == decrypt_key_material(e, name, version, row.v.key_material)
             IN  IF key.some THEN [res |-> "Ok", out |-> key]
                 ELSE [res |-> "Crypto", out |-> None]

\* TransitEngine::create_key.
create_key(e, d, name, config, raw_key, nonce) ==
    IF ~validate_name(name) THEN [db |-> d, res |-> "InvalidKeyName", out |-> None]
    ELSE IF SelectKey(d, name).some THEN [db |-> d, res |-> "KeyExists", out |-> None]
    ELSE LET key == [name |-> name, latest_version |-> 1,
                     min_encryption_version |-> 1, min_decryption_version |-> 1,
                     supports_encryption |-> config.supports_encryption,
                     supports_decryption |-> config.supports_decryption,
                     deletion_allowed |-> config.deletion_allowed]
             k == InsertKey(d, key)
             v == InsertKeyVersion(k.db,
                     [name |-> name, version |-> 1,
                      key_material |-> encrypt_key_material(e, name, 1, raw_key, nonce)])
         IN  IF ~k.ok THEN [db |-> d, res |-> "Storage", out |-> None]
             ELSE IF ~v.ok THEN [db |-> k.db, res |-> "Storage", out |-> None]
             ELSE [db |-> v.db, res |-> "Ok", out |-> Some(key)]

\* TransitEngine::get_key.
get_key(d, name) ==
    IF ~validate_name(name) THEN [res |-> "InvalidKeyName", out |-> None]
    ELSE IF ~SelectKey(d, name).some THEN [res |-> "KeyNotFound", out |-> None]
    ELSE [res |-> "Ok", out |-> SelectKey(d, name)]

RECURSIVE Descending(_)
\* ORDER BY version DESC.
Descending(versions) ==
    IF versions = {} THEN <<>>
    ELSE LET top == CHOOSE v \in versions : \A w \in versions : w <= v
         IN  <<top>> \o Descending(versions \ {top})

\* TransitEngine::list_versions (the version of each KeyVersionInfo).
list_versions(d, name) ==
    IF get_key(d, name).res # "Ok" THEN [res |-> get_key(d, name).res, out |-> None]
    ELSE [res |-> "Ok",
          out |-> Some(Descending({r.version : r \in
                      {q \in d.transit_key_versions : q.name = name}}))]

\* A rotate_key call that has returned.
Rotated(name, res, out) == [pc |-> "done", name |-> name, res |-> res, out |-> out]

\* TransitEngine::rotate_key up to its first write: validate_name, get_key
\* and the new version number.
rotate_read(d, name) ==
    LET key == get_key(d, name)
    IN  IF key.res # "Ok" THEN Rotated(name, key.res, None)
        ELSE [pc |-> "insert", name |-> name,
              new_version |-> key.out.v.latest_version + 1]

\* TransitEngine::rotate_key, INSERT of the new version's wrapped material.
rotate_insert(e, d, c, raw_key, nonce) ==
    LET ins == InsertKeyVersion(d,
                  [name |-> c.name, version |-> c.new_version,
                   key_material |->
                       encrypt_key_material(e, c.name, c.new_version, raw_key, nonce)])
    IN  IF ins.ok
        THEN [db |-> ins.db, call |-> [c EXCEPT !.pc = "update"]]
        ELSE [db |-> d, call |-> Rotated(c.name, "Storage", None)]

\* Mutant of rotate_update: latest_version is not advanced.
Mut_rotate_update_KeepsLatest(d, c) ==
    [db |-> d, call |-> Rotated(c.name, "Ok", Some(c.new_version))]

\* TransitEngine::rotate_key, UPDATE of latest_version and return.
rotate_update(d, c) ==
    [db |-> UpdateLatestVersion(d, c.name, c.new_version),
     call |-> Rotated(c.name, "Ok", Some(c.new_version))]

\* TransitEngine::rotate_key, run without interruption.
rotate_key(e, d, name, raw_key, nonce) ==
    LET c == rotate_read(d, name)
        i == rotate_insert(e, d, c, raw_key, nonce)
        u == rotate_update(i.db, i.call)
    IN  IF c.pc = "done" THEN [db |-> d, res |-> c.res, out |-> c.out]
        ELSE IF i.call.pc = "done"
        THEN [db |-> i.db, res |-> i.call.res, out |-> i.call.out]
        ELSE [db |-> u.db, res |-> u.call.res, out |-> u.call.out]

\* Mutant of delete_key: deletion_allowed is not looked at.
Mut_delete_key_Unconditional(d, name) ==
    IF get_key(d, name).res # "Ok"
    THEN [db |-> d, res |-> get_key(d, name).res, out |-> None]
    ELSE [db |-> DeleteKey(DeleteKeyVersions(d, name), name),
          res |-> "Ok", out |-> None]

\* TransitEngine::delete_key.
delete_key(d, name) ==
    LET key == get_key(d, name)
    IN  IF key.res # "Ok" THEN [db |-> d, res |-> key.res, out |-> None]
        ELSE IF ~key.out.v.deletion_allowed
        THEN [db |-> d, res |-> "DeletionNotAllowed", out |-> None]
        ELSE [db |-> DeleteKey(DeleteKeyVersions(d, name), name),
              res |-> "Ok", out |-> None]

\* TransitEngine::update_key_config.
update_key_config(d, name, min_encryption_version, min_decryption_version, deletion_allowed) ==
    LET key == get_key(d, name)
    IN  IF key.res # "Ok" THEN [db |-> d, res |-> key.res, out |-> None]
        ELSE LET min_enc == IF min_encryption_version.some
                            THEN min_encryption_version.v
                            ELSE key.out.v.min_encryption_version
                 min_dec == IF min_decryption_version.some
                            THEN min_decryption_version.v
                            ELSE key.out.v.min_decryption_version
                 del == IF deletion_allowed.some
                        THEN deletion_allowed.v ELSE key.out.v.deletion_allowed
             IN  IF min_enc > key.out.v.latest_version
                 THEN [db |-> d, res |-> "VersionNotFound",
                       out |-> Some([name |-> name, version |-> min_enc])]
                 ELSE IF min_dec > key.out.v.latest_version
                 THEN [db |-> d, res |-> "VersionNotFound",
                       out |-> Some([name |-> name, version |-> min_dec])]
                 ELSE [db |-> UpdateConfig(d, name, min_enc, min_dec, del),
                       res |-> "Ok", out |-> None]

\* ------------------------------------------------- the ciphertext envelope

\* The decimal digits.
Digits == <<"0", "1", "2", "3", "4", "5", "6", "7", "8", "9">>

RECURSIVE to_string(_)
\* u32's Display: the decimal digits of n, without leading zeros.
to_string(n) ==
    IF n < 10 THEN <<Digits[n + 1]>>
    ELSE to_string(n \div 10) \o <<Digits[(n % 10) + 1]>>

\* The value of a decimal digit.
DigitValue(c) == CHOOSE i \in 0 .. 9 : Digits[i + 1] = c

RECURSIVE DigitsValue(_)
DigitsValue(s) ==
    IF Len(s) = 0 THEN 0
    ELSE 10 * DigitsValue(SubSeq(s, 1, Len(s) - 1)) + DigitValue(s[Len(s)])

\* The width of a version number (u32 in the source, scaled).
U32_BITS == 16

\* u32::from_str: an optional '+', then at least one decimal digit (leading
\* zeros allowed), the value within u32.
parse_u32(s) ==
    LET digits == IF Len(s) > 0 /\ s[1] = "+" THEN SubSeq(s, 2, Len(s)) ELSE s
    IN  IF Len(digits) = 0 THEN None
        ELSE IF \E i \in 1 .. Len(digits) : \A j \in 1 .. 10 : Digits[j] # digits[i]
        THEN None
        ELSE IF DigitsValue(digits) >= 2 ^ U32_BITS THEN None
        ELSE Some(DigitsValue(digits))

\* A ciphertext envelope is a text: a sequence of tokens, each either a
\* character or the base64 text of some bytes.
Text(chars) == [i \in 1 .. Len(chars) |-> [char |-> chars[i]]]

\* BASE64.encode of an AEAD output.
base64_encode(bytes) == <<[base64 |-> bytes]>>

\* BASE64.decode: None when the text is not base64.
base64_decode(text) ==
    IF Len(text) = 1 /\ DOMAIN text[1] = {"base64"}
    THEN Some(text[1].base64) ELSE None

\* format!("egide:v{}:{}", version, encoded).
format_ciphertext(version, encoded) ==
    Text(<<"e", "g", "i", "d", "e", ":", "v">> \o to_string(version) \o <<":">>)
        \o encoded

\* The positions of ':' in a text.
Colons(text) == {i \in 1 .. Len(text) : text[i] = [char |-> ":"]}

\* The characters of a text without base64 tokens, None otherwise.
CharsOf(text) ==
    IF \A i \in 1 .. Len(text) : DOMAIN text[i] = {"char"}
    THEN Some([i \in 1 .. Len(text) |-> text[i].char]) ELSE None

\* TransitEngine::parse_ciphertext: splitn(3, ':'), the head "egide", the
\* middle 'v' and a u32, the tail base64.
parse_ciphertext(ciphertext) ==
    IF Cardinality(Colons(ciphertext)) < 2 THEN None
    ELSE LET first == CHOOSE i \in Colons(ciphertext) :
                         \A j \in Colons(ciphertext) : i <= j
             second == CHOOSE i \in Colons(ciphertext) \ {first} :
                         \A j \in Colons(ciphertext) \ {first} : i <= j
             head == SubSeq(ciphertext, 1, first - 1)
             middle == CharsOf(SubSeq(ciphertext, first + 1, second - 1))
             tail == SubSeq(ciphertext, second + 1, Len(ciphertext))
             version == IF middle.some /\ Len(middle.v) > 0 /\ middle.v[1] = "v"
                        THEN parse_u32(SubSeq(middle.v, 2, Len(middle.v)))
                        ELSE None
             data == base64_decode(tail)
         IN  IF head # Text(<<"e", "g", "i", "d", "e">>) \/ ~version.some \/ ~data.some
             THEN None
             ELSE Some([version |-> version.v, data |-> data.v])

\* ------------------------------------------------ encryption and decryption

\* Mutant of encrypt_with_version: min_encryption_version is not looked at.
Mut_encrypt_with_version_NoMin(e, d, name, plaintext, version, nonce) ==
    LET key == get_key(d, name)
    IN  IF key.res # "Ok" THEN [res |-> key.res, out |-> None]
        ELSE IF ~key.out.v.supports_encryption
        THEN [res |-> "OperationNotAllowed", out |-> None]
        ELSE IF version > key.out.v.latest_version
        THEN [res |-> "VersionNotFound",
              out |-> Some([name |-> name, version |-> version])]
        ELSE LET raw_key == get_key_material(e, d, name, version)
             IN  IF raw_key.res # "Ok" THEN raw_key
                 ELSE [res |-> "Ok",
                       out |-> Some(format_ciphertext(version,
                           base64_encode(aead_encrypt(raw_key.out.v, nonce, plaintext,
                               <<"egide-transit:", name, version>>))))]

\* TransitEngine::encrypt_with_version.  nonce is the draw of aead::encrypt.
encrypt_with_version(e, d, name, plaintext, version, nonce) ==
    LET key == get_key(d, name)
    IN  IF key.res # "Ok" THEN [res |-> key.res, out |-> None]
        ELSE IF ~key.out.v.supports_encryption
        THEN [res |-> "OperationNotAllowed", out |-> None]
        ELSE IF version < key.out.v.min_encryption_version
        THEN [res |-> "VersionBelowMinEncryption",
              out |-> Some([version |-> version,
                            min |-> key.out.v.min_encryption_version])]
        ELSE IF version > key.out.v.latest_version
        THEN [res |-> "VersionNotFound",
              out |-> Some([name |-> name, version |-> version])]
        ELSE LET raw_key == get_key_material(e, d, name, version)
             IN  IF raw_key.res # "Ok" THEN raw_key
                 ELSE [res |-> "Ok",
                       out |-> Some(format_ciphertext(version,
                           base64_encode(aead_encrypt(raw_key.out.v, nonce, plaintext,
                               <<"egide-transit:", name, version>>))))]

\* Mutant of encrypt: the first version is used instead of the latest.
Mut_encrypt_FirstVersion(e, d, name, plaintext, nonce) ==
    LET key == get_key(d, name)
    IN  IF key.res # "Ok" THEN [res |-> key.res, out |-> None]
        ELSE IF ~key.out.v.supports_encryption
        THEN [res |-> "OperationNotAllowed", out |-> None]
        ELSE encrypt_with_version(e, d, name, plaintext, 1, nonce)

\* TransitEngine::encrypt.
encrypt(e, d, name, plaintext, nonce) ==
    LET key == get_key(d, name)
    IN  IF key.res # "Ok" THEN [res |-> key.res, out |-> None]
        ELSE IF ~key.out.v.supports_encryption
        THEN [res |-> "OperationNotAllowed", out |-> None]
        ELSE encrypt_with_version(e, d, name, plaintext,
                                  key.out.v.latest_version, nonce)

\* Mutant of decrypt: min_decryption_version is not looked at.
Mut_decrypt_NoMin(e, d, name, ciphertext) ==
    LET key == get_key(d, name)
        parsed == parse_ciphertext(ciphertext)
    IN  IF key.res # "Ok" THEN [res |-> key.res, out |-> None]
        ELSE IF ~key.out.v.supports_decryption
        THEN [res |-> "OperationNotAllowed", out |-> None]
        ELSE IF ~parsed.some THEN [res |-> "InvalidCiphertext", out |-> None]
        ELSE LET raw_key == get_key_material(e, d, name, parsed.v.version)
             IN  IF raw_key.res # "Ok" THEN raw_key
                 ELSE LET decrypted ==
                              aead_decrypt(raw_key.out.v, parsed.v.data,
                                  <<"egide-transit:", name, parsed.v.version>>)
                      IN  IF decrypted.some THEN [res |-> "Ok", out |-> decrypted]
                          ELSE [res |-> "DecryptionFailed", out |-> None]

\* Mutant of decrypt: the associated data leaves out the key name.
Mut_decrypt_AadWithoutName(e, d, name, ciphertext) ==
    LET key == get_key(d, name)
        parsed == parse_ciphertext(ciphertext)
    IN  IF key.res # "Ok" THEN [res |-> key.res, out |-> None]
        ELSE IF ~parsed.some THEN [res |-> "InvalidCiphertext", out |-> None]
        ELSE LET raw_key == get_key_material(e, d, name, parsed.v.version)
             IN  IF raw_key.res # "Ok" THEN raw_key
                 ELSE IF parsed.v.data.key = raw_key.out.v
                 THEN [res |-> "Ok", out |-> Some(parsed.v.data.plaintext)]
                 ELSE [res |-> "DecryptionFailed", out |-> None]

\* TransitEngine::decrypt.
decrypt(e, d, name, ciphertext) ==
    LET key == get_key(d, name)
        parsed == parse_ciphertext(ciphertext)
    IN  IF key.res # "Ok" THEN [res |-> key.res, out |-> None]
        ELSE IF ~key.out.v.supports_decryption
        THEN [res |-> "OperationNotAllowed", out |-> None]
        ELSE IF ~parsed.some THEN [res |-> "InvalidCiphertext", out |-> None]
        ELSE IF parsed.v.version < key.out.v.min_decryption_version
        THEN [res |-> "VersionBelowMinDecryption",
              out |-> Some([version |-> parsed.v.version,
                            min |-> key.out.v.min_decryption_version])]
        ELSE LET raw_key == get_key_material(e, d, name, parsed.v.version)
             IN  IF raw_key.res # "Ok" THEN raw_key
                 ELSE LET decrypted ==
                              aead_decrypt(raw_key.out.v, parsed.v.data,
                                  <<"egide-transit:", name, parsed.v.version>>)
                      IN  IF decrypted.some THEN [res |-> "Ok", out |-> decrypted]
                          ELSE [res |-> "DecryptionFailed", out |-> None]

\* Mutant of rewrap: a ciphertext of the latest version is encrypted again.
Mut_rewrap_AlwaysEncrypts(e, d, name, ciphertext, nonce) ==
    LET key == get_key(d, name)
        parsed == parse_ciphertext(ciphertext)
        plaintext == decrypt(e, d, name, ciphertext)
    IN  IF key.res # "Ok" THEN [res |-> key.res, out |-> None]
        ELSE IF ~parsed.some THEN [res |-> "InvalidCiphertext", out |-> None]
        ELSE IF plaintext.res # "Ok" THEN plaintext
        ELSE encrypt(e, d, name, plaintext.out.v, nonce)

\* TransitEngine::rewrap.
rewrap(e, d, name, ciphertext, nonce) ==
    LET key == get_key(d, name)
        parsed == parse_ciphertext(ciphertext)
        plaintext == decrypt(e, d, name, ciphertext)
    IN  IF key.res # "Ok" THEN [res |-> key.res, out |-> None]
        ELSE IF ~parsed.some THEN [res |-> "InvalidCiphertext", out |-> None]
        ELSE IF parsed.v.version = key.out.v.latest_version
        THEN [res |-> "Ok", out |-> Some(ciphertext)]
        ELSE IF plaintext.res # "Ok" THEN plaintext
        ELSE encrypt(e, d, name, plaintext.out.v, nonce)

\* ------------------------------------------------ transit engine: actions

\* Largest version a key is rotated to.
MaxKeyVersion == 3

\* The key names callers use, and one that validate_name rejects.
KeyNames == {<<"a">>, <<"b">>}

NameInputs == KeyNames \cup {<<".">>}

\* The configurations keys are created with.
KeyConfigs ==
    {DefaultKeyConfig,
     [DefaultKeyConfig EXCEPT !.deletion_allowed = TRUE],
     [DefaultKeyConfig EXCEPT !.supports_encryption = FALSE],
     [DefaultKeyConfig EXCEPT !.supports_decryption = FALSE]}

\* random::generate_key: the raw key material create_key draws.
RawKeys == KeyDraws

\* random::generate_key: the raw key material rotate_key draws, which is one
\* of the keys create_key may have drawn.
RotatedKeys == {CHOOSE k \in RawKeys : TRUE}

\* The nonce aead::encrypt draws when it wraps key material.
WrapNonce == 0

\* The nonces aead::encrypt draws when it encrypts data.
Nonces == {1, 2}

\* The plaintext clients encrypt.
Plaintext == "hello"

\* The version numbers callers ask for: 0, stored ones and one beyond.
KeyVersionInputs == 0 .. (MaxKeyVersion + 1)

\* The min versions update_key_config is called with.
MinVersionInputs == {None} \cup {Some(v) : v \in KeyVersionInputs}

\* The partial updates callers make: one min version, both min versions at
\* the same value, or the deletion flag.
ConfigUpdates ==
    {[min_enc |-> v, min_dec |-> None, del |-> None] : v \in MinVersionInputs}
    \cup {[min_enc |-> None, min_dec |-> v, del |-> None] : v \in MinVersionInputs}
    \cup {[min_enc |-> v, min_dec |-> v, del |-> None] : v \in MinVersionInputs}
    \cup {[min_enc |-> None, min_dec |-> None, del |-> Some(b)] : b \in BOOLEAN}

\* The engine under test (tests::setup).
TestTransit == TransitEngine(TestKey)

\* A ciphertext with its version label replaced
\* (test_wrong_version_in_ciphertext).
Relabel(ciphertext, version) ==
    format_ciphertext(version, base64_encode(parse_ciphertext(ciphertext).v.data))

\* tests::setup: a fresh database, no key.
TransitInit ==
    /\ NoVault
    /\ EngineUnused
    /\ last = [op |-> "new", res |-> "Ok", out |-> None]

TransitCreateKey(name, config, raw_key) ==
    LET r == create_key(TestTransit, transit, name, config, raw_key, WrapNonce)
    IN  /\ transit' = r.db
        /\ last' = [op |-> "create_key", res |-> r.res, out |-> r.out,
                    name |-> name]
        /\ UNCHANGED <<lockVars, validation, mgr, storage, issued, serverVars, db, now, calls,
                       held, rotations>>

TransitRotateKey(name, raw_key) ==
    LET r == rotate_key(TestTransit, transit, name, raw_key, WrapNonce)
    IN  /\ r.res = "Ok" => r.out.v <= MaxKeyVersion
        /\ transit' = r.db
        /\ last' = [op |-> "rotate_key", res |-> r.res, out |-> r.out,
                    name |-> name]
        /\ UNCHANGED <<lockVars, validation, mgr, storage, issued, serverVars, db, now, calls,
                       held, rotations>>

\* The client discards the ciphertexts of a key it has deleted.
TransitDeleteKey(name) ==
    LET r == delete_key(transit, name)
    IN  /\ transit' = r.db
        /\ held' = IF r.res = "Ok" /\ held.some /\ held.v.name = name
                   THEN None ELSE held
        /\ last' = [op |-> "delete_key", res |-> r.res, out |-> r.out,
                    name |-> name]
        /\ UNCHANGED <<lockVars, validation, mgr, storage, issued, serverVars, db, now, calls,
                       rotations>>

TransitUpdateKeyConfig(name, upd) ==
    LET r == update_key_config(transit, name, upd.min_enc, upd.min_dec, upd.del)
    IN  /\ transit' = r.db
        /\ last' = [op |-> "update_key_config", res |-> r.res, out |-> r.out,
                    name |-> name]
        /\ UNCHANGED <<lockVars, validation, mgr, storage, issued, serverVars, db, now, calls,
                       held, rotations>>

\* The client keeps the ciphertext it receives, with the key name, the
\* plaintext and the key's latest version at the time of the call.
TransitEncrypt(name, nonce) ==
    LET r == encrypt(TestTransit, transit, name, Plaintext, nonce)
    IN  /\ held' = IF r.res = "Ok"
                   THEN Some([ciphertext |-> r.out.v, name |-> name,
                              plaintext |-> Plaintext,
                              version |-> SelectKey(transit, name).v.latest_version])
                   ELSE held
        /\ last' = [op |-> "encrypt", res |-> r.res,
                    out |-> IF r.res = "Ok" THEN None ELSE r.out, name |-> name]
        /\ UNCHANGED <<lockVars, validation, mgr, storage, issued, serverVars, db, now, calls,
                       transit, rotations>>

TransitEncryptWithVersion(name, version, nonce) ==
    LET r == encrypt_with_version(TestTransit, transit, name, Plaintext, version, nonce)
    IN  /\ held' = IF r.res = "Ok"
                   THEN Some([ciphertext |-> r.out.v, name |-> name,
                              plaintext |-> Plaintext, version |-> version])
                   ELSE held
        /\ last' = [op |-> "encrypt_with_version", res |-> r.res,
                    out |-> IF r.res = "Ok" THEN None ELSE r.out,
                    name |-> name, version |-> version]
        /\ UNCHANGED <<lockVars, validation, mgr, storage, issued, serverVars, db, now, calls,
                       transit, rotations>>

\* decrypt of the ciphertext held, under any key name.
TransitDecrypt(name) ==
    LET r == decrypt(TestTransit, transit, name, held.v.ciphertext)
    IN  /\ held.some
        /\ last' = [op |-> "decrypt", res |-> r.res, out |-> r.out, name |-> name]
        /\ UNCHANGED <<lockVars, validation, mgr, storage, issued, serverVars, db, now, calls,
                       transit, held, rotations, validation, locks, tasks>>

\* decrypt of the ciphertext held with another version label.
TransitDecryptRelabelled(name, version) ==
    LET r == decrypt(TestTransit, transit, name,
                     Relabel(held.v.ciphertext, version))
    IN  /\ held.some
        /\ last' = [op |-> "decrypt", res |-> r.res, out |-> r.out, name |-> name]
        /\ UNCHANGED <<lockVars, validation, mgr, storage, issued, serverVars, db, now, calls,
                       transit, held, rotations, validation, locks, tasks>>

\* rewrap of the ciphertext held; the client keeps the result in its place.
TransitRewrap(name, nonce) ==
    LET r == rewrap(TestTransit, transit, name, held.v.ciphertext, nonce)
    IN  /\ held.some
        /\ held' = IF r.res = "Ok"
                   THEN Some([held.v EXCEPT
                           !.ciphertext = r.out.v,
                           !.version = parse_ciphertext(r.out.v).v.version])
                   ELSE held
        /\ last' = [op |-> "rewrap", res |-> r.res,
                    out |-> IF r.res = "Ok" THEN None ELSE r.out, name |-> name,
                    unchanged |-> r.res = "Ok" /\ r.out.v = held.v.ciphertext]
        /\ UNCHANGED <<lockVars, validation, mgr, storage, issued, serverVars, db, now, calls,
                       transit, rotations>>

\* One key, every configuration and every call on it.
TransitNext ==
    \/ \E name \in {<<"a">>, <<".">>}, config \in KeyConfigs, raw_key \in RawKeys :
          TransitCreateKey(name, config, raw_key)
    \/ \E raw_key \in RotatedKeys : TransitRotateKey(<<"a">>, raw_key)
    \/ TransitDeleteKey(<<"a">>)
    \/ \E upd \in ConfigUpdates : TransitUpdateKeyConfig(<<"a">>, upd)
    \/ \E nonce \in Nonces : TransitEncrypt(<<"a">>, nonce)
    \/ \E version \in KeyVersionInputs, nonce \in Nonces :
          TransitEncryptWithVersion(<<"a">>, version, nonce)
    \/ TransitDecrypt(<<"a">>)
    \/ \E version \in KeyVersionInputs : TransitDecryptRelabelled(<<"a">>, version)
    \/ \E nonce \in Nonces : TransitRewrap(<<"a">>, nonce)

SpecTransit == TransitInit /\ [][TransitNext]_vars

\* ------------------------------------------------ transit engine: claims

\* C22: for every transit key, in every state reachable by create_key,
\* rotate_key and update_key_config calls, rejected ones included,
\* 1 <= min_encryption_version <= latest_version and
\* 1 <= min_decryption_version <= latest_version.
C22_MinVersionsWithinRange ==
    \A key \in transit.transit_keys :
        /\ 1 <= key.min_encryption_version
        /\ key.min_encryption_version <= key.latest_version
        /\ 1 <= key.min_decryption_version
        /\ key.min_decryption_version <= key.latest_version

\* ------------------------------------------- concurrent rotate_key calls

\* The callers that rotate a key concurrently (connections of the pool).
Rotators == DOMAIN NoRotations

\* The versions rotate_key calls have returned so far.
ReturnedVersions == IF last.op = "rotate_key" THEN last.returned ELSE {}

\* A caller enters rotate_key: validate_name and get_key.
RotateBegin(c, name) ==
    /\ rotations[c].pc = "idle"
    /\ LET call == rotate_read(transit, name)
       IN  /\ call.pc = "insert" => call.new_version <= MaxKeyVersion
           /\ rotations' = [rotations EXCEPT ![c] = call]
    /\ UNCHANGED <<lockVars, validation, mgr, storage, issued, last, serverVars, db, now, calls,
                   transit, held>>

\* The caller's INSERT into transit_key_versions.
RotateInsert(c, raw_key) ==
    /\ rotations[c].pc = "insert"
    /\ LET r == rotate_insert(TestTransit, transit, rotations[c], raw_key, WrapNonce)
       IN  /\ transit' = r.db
           /\ rotations' = [rotations EXCEPT ![c] = r.call]
    /\ UNCHANGED <<lockVars, validation, mgr, storage, issued, last, serverVars, db, now, calls, held>>

\* The caller's UPDATE of latest_version.
RotateUpdate(c) ==
    /\ rotations[c].pc = "update"
    /\ LET r == rotate_update(transit, rotations[c])
       IN  /\ transit' = r.db
           /\ rotations' = [rotations EXCEPT ![c] = r.call]
    /\ UNCHANGED <<lockVars, validation, mgr, storage, issued, last, serverVars, db, now, calls, held>>

\* rotate_key returns to the caller.
RotateReturn(c) ==
    /\ rotations[c].pc = "done"
    /\ last' = [op |-> "rotate_key", res |-> rotations[c].res,
                out |-> rotations[c].out, name |-> rotations[c].name,
                returned |-> ReturnedVersions \cup
                    (IF rotations[c].res = "Ok" THEN {rotations[c].out.v} ELSE {})]
    /\ rotations' = [rotations EXCEPT ![c] = [pc |-> "idle"]]
    /\ UNCHANGED <<lockVars, validation, mgr, storage, issued, serverVars, db, now, calls,
                   transit, held>>

\* A key is created, then two callers rotate it, each call interleaved with
\* the other's at its storage calls.
RotationsNext ==
    \/ /\ transit = EmptyTransitDb
       /\ \E raw_key \in RawKeys : TransitCreateKey(<<"a">>, DefaultKeyConfig, raw_key)
    \/ \E c \in Rotators, name \in KeyNames : RotateBegin(c, name)
    \/ \E c \in Rotators, raw_key \in RawKeys : RotateInsert(c, raw_key)
    \/ \E c \in Rotators : RotateUpdate(c)
    \/ \E c \in Rotators : RotateReturn(c)

SpecRotations == TransitInit /\ [][RotationsNext]_vars

\* No rotate_key call is between its INSERT and its UPDATE.
NoRotationHalfDone == \A c \in Rotators : rotations[c].pc # "update"

\* The part of C23 that holds of every state.
C23_RotationsInState ==
    /\ \A raw_key \in RawKeys :
          LET key == SelectKey(transit, <<"a">>)
              r == rotate_key(TestTransit, transit, <<"a">>, raw_key, WrapNonce)
          IN  (key.some /\ NoRotationHalfDone) =>
                 /\ r.res = "Ok"
                 /\ r.out = Some(key.v.latest_version + 1)
                 /\ SelectKey(r.db, <<"a">>).v.latest_version
                       = key.v.latest_version + 1
                 /\ list_versions(r.db, <<"a">>).out
                       = Some(Descending(1 .. (key.v.latest_version + 1)))
    /\ \A key \in transit.transit_keys :
          NoRotationHalfDone =>
              list_versions(transit, key.name)
                  = [res |-> "Ok", out |-> Some(Descending(1 .. key.latest_version))]
    /\ \A c \in Rotators :
          (rotations[c].pc = "done" /\ rotations[c].res = "Ok") =>
              /\ rotations[c].out.v \notin ReturnedVersions
              /\ \A o \in Rotators \ {c} :
                    (rotations[o].pc = "done" /\ rotations[o].res = "Ok")
                        => rotations[o].out # rotations[c].out

\* The part of C23 that holds of every step: latest_version never decreases.
C23_LatestNeverDecreases ==
    \A key \in transit.transit_keys :
        /\ SelectKey(transit', key.name).some
        /\ SelectKey(transit', key.name).v.latest_version >= key.latest_version

\* C23: each successful rotate_key returns the previous latest_version + 1
\* and makes it the latest; latest_version never decreases; list_versions
\* returns exactly latest_version down to 1; and two concurrent rotate_key
\* calls on the same key, interleaved at their storage calls, never both
\* return the same version.
C23_RotationIsMonotonic ==
    []C23_RotationsInState /\ [][C23_LatestNeverDecreases]_vars

\* C23 witness: both callers read latest_version 1 and called INSERT; one has
\* returned version 2, the other has failed.
C23_Witness ==
    /\ last.op = "rotate_key" /\ last.res = "Ok" /\ last.out = Some(2)
    /\ \E c \in Rotators : rotations[c].pc = "done" /\ rotations[c].res = "Storage"
    /\ SelectKey(transit, <<"a">>).v.latest_version = 2

\* C24: every ciphertext returned by encrypt(name, pt) begins with
\* "egide:v{n}:" where n is the key's latest_version at the time of the call
\* (1 after create_key, one more after each rotation), and a successful
\* encrypt_with_version(name, pt, v) returns one beginning with "egide:v{v}:".
C24_CiphertextLabelledWithVersion ==
    LET label(n) == <<"1", "2", "3", "4", "5", "6">>[n]
        prefix(n) == <<[char |-> "e"], [char |-> "g"], [char |-> "i"],
                       [char |-> "d"], [char |-> "e"], [char |-> ":"],
                       [char |-> "v"], [char |-> label(n)], [char |-> ":"]>>
        begins(ct, n) == Len(ct) > 9 /\ SubSeq(ct, 1, 9) = prefix(n)
        name == <<"a">>
        key == SelectKey(transit, name)
    IN  \A nonce \in Nonces :
          /\ key.some =>
                LET r == encrypt(TestTransit, transit, name, Plaintext, nonce)
                IN  /\ key.v.supports_encryption => r.res = "Ok"
                    /\ r.res = "Ok" => begins(r.out.v, key.v.latest_version)
          /\ \A v \in KeyVersionInputs :
                LET r == encrypt_with_version(TestTransit, transit, name,
                                              Plaintext, v, nonce)
                IN  r.res = "Ok" => begins(r.out.v, v)
          /\ \A raw_key \in RawKeys :
                LET c == create_key(TestTransit, transit, name, DefaultKeyConfig,
                                    raw_key, WrapNonce)
                    r == encrypt(TestTransit, c.db, name, Plaintext, nonce)
                IN  c.res = "Ok" => (r.res = "Ok" /\ begins(r.out.v, 1))
          /\ \A raw_key \in RawKeys :
                LET rot == rotate_key(TestTransit, transit, name, raw_key, WrapNonce)
                    r == encrypt(TestTransit, rot.db, name, Plaintext, nonce)
                IN  (rot.res = "Ok" /\ r.res = "Ok") =>
                        begins(r.out.v, key.v.latest_version + 1)

\* C24 witness: after two rotations encrypt has returned a ciphertext that
\* begins with "egide:v3:".
C24_Witness ==
    /\ last.op = "encrypt" /\ last.res = "Ok"
    /\ SelectKey(transit, <<"a">>).v.latest_version = 3
    /\ held.some
    /\ SubSeq(held.v.ciphertext, 1, 9)
          = <<[char |-> "e"], [char |-> "g"], [char |-> "i"], [char |-> "d"],
              [char |-> "e"], [char |-> ":"], [char |-> "v"], [char |-> "3"],
              [char |-> ":"]>>

\* C25: rewrap(name, ct) returns a string equal to ct when ct's version is the
\* key's latest_version; otherwise a successful rewrap returns a ciphertext
\* labelled with latest_version that decrypts to the same plaintext as ct.
\* rewrap applied to its own result returns that result unchanged.
C25_RewrapReachesLatest ==
    \A key \in transit.transit_keys, nonce \in Nonces :
        held.some =>
            LET ct == held.v.ciphertext
                r == rewrap(TestTransit, transit, key.name, ct, nonce)
                was == decrypt(TestTransit, transit, key.name, ct)
            IN  /\ parse_ciphertext(ct).v.version = key.latest_version =>
                      r = [res |-> "Ok", out |-> Some(ct)]
                /\ (parse_ciphertext(ct).v.version # key.latest_version
                      /\ was.res = "Ok" /\ key.supports_encryption) => r.res = "Ok"
                /\ (parse_ciphertext(ct).v.version # key.latest_version
                      /\ r.res = "Ok") =>
                      /\ parse_ciphertext(r.out.v).v.version = key.latest_version
                      /\ was.res = "Ok"
                      /\ decrypt(TestTransit, transit, key.name, r.out.v) = was
                      /\ was.out = Some(held.v.plaintext)
                /\ r.res = "Ok" =>
                      \A again \in Nonces :
                          rewrap(TestTransit, transit, key.name, r.out.v, again) = r

\* C25 witness: a ciphertext of version 1 was rewrapped after a rotation; the
\* client holds the result, another string, labelled with version 2.
C25_Witness ==
    /\ last.op = "rewrap" /\ last.res = "Ok" /\ ~last.unchanged
    /\ held.v.version = 2
    /\ SelectKey(transit, <<"a">>).v.latest_version = 2
    /\ decrypt(TestTransit, transit, <<"a">>, held.v.ciphertext).out = Some(Plaintext)

\* ------------------------------------------------- two keys of one engine

\* Two keys with the default configuration: created, rotated, their
\* min_decryption_version moved, used to encrypt and to decrypt.
TransitKeysNext ==
    \/ \E name \in KeyNames, raw_key \in RawKeys :
          TransitCreateKey(name, DefaultKeyConfig, raw_key)
    \/ \E name \in KeyNames, raw_key \in RotatedKeys : TransitRotateKey(name, raw_key)
    \/ \E name \in KeyNames, v \in KeyVersionInputs :
          TransitUpdateKeyConfig(name,
              [min_enc |-> None, min_dec |-> Some(v), del |-> None])
    \/ \E name \in KeyNames : TransitEncrypt(name, 1)
    \/ \E name \in KeyNames : TransitDecrypt(name)

SpecTransitKeys == TransitInit /\ [][TransitKeysNext]_vars

C28_EncryptWithinVersionRange ==
    \A key \in transit.transit_keys, nonce \in Nonces :
        /\ \A v \in KeyVersionInputs :
              LET r == encrypt_with_version(TestTransit, transit, key.name,
                                            Plaintext, v, nonce)
              IN  /\ r.res = "Ok" =>
                        /\ key.supports_encryption
                        /\ key.min_encryption_version <= v
                        /\ v <= key.latest_version
                  /\ (key.supports_encryption /\ 1 <= v
                        /\ key.min_encryption_version <= v
                        /\ v <= key.latest_version) => r.res = "Ok"
                  /\ ~key.supports_encryption =>
                        r = [res |-> "OperationNotAllowed", out |-> None]
                  /\ (key.supports_encryption /\ v < key.min_encryption_version) =>
                        r = [res |-> "VersionBelowMinEncryption",
                             out |-> Some([version |-> v,
                                           min |-> key.min_encryption_version])]
                  /\ (key.supports_encryption /\ key.min_encryption_version <= v
                        /\ v > key.latest_version) =>
                        r = [res |-> "VersionNotFound",
                             out |-> Some([name |-> key.name, version |-> v])]
        /\ encrypt(TestTransit, transit, key.name, Plaintext, nonce).res
              = IF key.supports_encryption THEN "Ok" ELSE "OperationNotAllowed"

\* C28 witness: after a rotation and min_encryption_version set to 2,
\* encrypt_with_version for version 1 was rejected with
\* VersionBelowMinEncryption{version: 1, min: 2}.
C28_Witness ==
    /\ last.op = "encrypt_with_version"
    /\ last.version = 1
    /\ last.res = "VersionBelowMinEncryption"
    /\ last.out = Some([version |-> 1, min |-> 2])
    /\ SelectKey(transit, <<"a">>).v.min_encryption_version = 2

\* The part of C29 that holds of every state: delete_key(name) succeeds
\* only if the key's deletion_allowed is true, and then the key's metadata and all of its versions are gone (get_key
\* returns KeyNotFound); if deletion_allowed is false it returns
\* DeletionNotAllowed and the key, its versions and its ability to decrypt
\* existing ciphertexts are unchanged.  No step removes a key unless it is a
\* delete_key on a key whose deletion_allowed was true.
C29_DeleteOnlyWhenAllowedInState ==
    \A key \in transit.transit_keys :
        LET r == delete_key(transit, key.name)
        IN  IF key.deletion_allowed
            THEN /\ r.res = "Ok"
                 /\ get_key(r.db, key.name).res = "KeyNotFound"
                 /\ \A row \in r.db.transit_key_versions : row.name # key.name
                 /\ \A row \in r.db.transit_keys : row.name # key.name
            ELSE /\ r.res = "DeletionNotAllowed"
                 /\ r.db = transit
                 /\ held.some =>
                       decrypt(TestTransit, r.db, key.name, held.v.ciphertext)
                           = decrypt(TestTransit, transit, key.name, held.v.ciphertext)

\* The part of C29 that holds of every step.
C29_KeysDisappearOnlyWhenAllowed ==
    \A key \in transit.transit_keys :
        ~SelectKey(transit', key.name).some =>
            /\ key.deletion_allowed
            /\ last'.op = "delete_key" /\ last'.res = "Ok" /\ last'.name = key.name

\* C29: delete_key succeeds only on a key whose deletion_allowed is true and
\* then removes its metadata and all its versions; refused, it returns
\* DeletionNotAllowed and changes nothing; a key never disappears otherwise.
C29_DeleteOnlyWhenAllowed ==
    []C29_DeleteOnlyWhenAllowedInState /\ [][C29_KeysDisappearOnlyWhenAllowed]_vars

\* C29 witness: delete_key was refused on a key that has two versions and a
\* ciphertext the client holds, which still decrypts.
C29_Witness ==
    /\ last.op = "delete_key" /\ last.res = "DeletionNotAllowed"
    /\ SelectKey(transit, <<"a">>).v.latest_version = 2
    /\ held.some
    /\ decrypt(TestTransit, transit, <<"a">>, held.v.ciphertext).res = "Ok"


\* ---------------------------------------------------------------------------
\* The authentication service (egide-server, main.rs): AuthService::validate
\* over a list of backends.  A backend is modelled by what its validate
\* returns for the token presented: an AuthContext or an AuthError.
\* ---------------------------------------------------------------------------

MaxBackends == 3

\* The AuthContext a backend returns (account_id).
Contexts == {"root", "alice"}

\* AuthError, the variants a backend's validate returns (RootTokenBackend:
\* InvalidCredentials, TokenNotFound, Storage; NubsterIdentityBackend:
\* TokenExpired, InvalidCredentials).
BackendErrors == {"TokenExpired", "InvalidCredentials", "TokenNotFound", "Storage"}

\* Result<AuthContext, AuthError> of AuthBackend::validate.
BackendResults ==
    {[res |-> "Ok", out |-> Some(c)] : c \in Contexts}
        \cup {[res |-> e, out |-> None] : e \in BackendErrors}

RECURSIVE BackendsOfLen(_)
BackendsOfLen(n) ==
    IF n = 0 THEN {<<>>}
    ELSE {Append(bs, b) : bs \in BackendsOfLen(n - 1), b \in BackendResults}

\* AuthService.backends: the Vec handed to AuthService::new.
BackendLists == UNION {BackendsOfLen(n) : n \in 0 .. MaxBackends}

\* AuthService::validate, entry: the iterator over self.backends.
validate_begin(backends) ==
    [pc |-> "loop", backends |-> backends, consulted |-> <<>>, result |-> None]

\* The loop with the TokenExpired arm moving on to the next backend like Err(_).
Mut_validate_next_ExpiredMovesOn(v) ==
    LET i == Len(v.consulted) + 1
    IN  IF i > Len(v.backends)
        THEN [v EXCEPT !.pc = "done",
                       !.result = Some([res |-> "InvalidCredentials", out |-> None])]
        ELSE LET r == v.backends[i]
                 w == [v EXCEPT !.consulted = Append(@, i)]
             IN  IF r.res = "Ok"
                 THEN [w EXCEPT !.pc = "done", !.result = Some(r)]
                 ELSE w

\* AuthService::validate, one turn of the for loop: the next backend's
\* validate and the match on its result, or the end of the loop.
validate_next(v) ==
    LET i == Len(v.consulted) + 1
    IN  IF i > Len(v.backends)
        THEN [v EXCEPT !.pc = "done",
                       !.result = Some([res |-> "InvalidCredentials", out |-> None])]
        ELSE LET r == v.backends[i]
                 w == [v EXCEPT !.consulted = Append(@, i)]
             IN  IF r.res = "Ok"
                 THEN [w EXCEPT !.pc = "done", !.result = Some(r)]
                 ELSE IF r.res = "TokenExpired"
                 THEN [w EXCEPT !.pc = "done",
                                !.result = Some([res |-> "TokenExpired", out |-> None])]
                 ELSE w

AuthInit ==
    /\ NoVault
    /\ EngineUnused
    /\ last = [op |-> "new", res |-> "Ok", out |-> None]

\* A request arrives: AuthService::validate is called.
ValidateBegin(backends) ==
    /\ validation.pc \in {"idle", "done"}
    /\ validation' = validate_begin(backends)
    /\ UNCHANGED <<lockVars, transitVars, mgr, storage, issued, last, serverVars, engineVars>>

\* The call runs up to its next await or to its return.
ValidateNext ==
    /\ validation.pc = "loop"
    /\ validation' = validate_next(validation)
    /\ UNCHANGED <<lockVars, transitVars, mgr, storage, issued, last, serverVars, engineVars>>

AuthNext ==
    \/ \E backends \in BackendLists : ValidateBegin(backends)
    \/ ValidateNext

SpecAuth == AuthInit /\ [][AuthNext]_vars

\* While the call runs, the backends consulted are the first ones in the
\* configured order and each of them failed with an error other than
\* TokenExpired; when it has returned, the backends consulted stop at the
\* first one that accepted the token or reported TokenExpired, the result is
\* that backend's context or TokenExpired, and InvalidCredentials after all
\* backends were consulted and none was decisive.
C30_ValidateInState ==
    LET v == validation
        n == Len(v.consulted)
        \* the backends that accept the token or report it expired
        d == {i \in 1 .. Len(v.backends) : v.backends[i].res \in {"Ok", "TokenExpired"}}
    IN  /\ \A i \in 1 .. n : v.consulted[i] = i
        /\ n <= Len(v.backends)
        /\ v.pc = "loop" =>
              /\ v.result = None
              /\ \A i \in 1 .. n : i \notin d
        /\ v.pc = "done" =>
              /\ v.result.some
              /\ IF d = {}
                 THEN /\ n = Len(v.backends)
                      /\ v.result.v = [res |-> "InvalidCredentials", out |-> None]
                 ELSE LET k == CHOOSE i \in d : \A j \in d : i <= j
                      IN  /\ n = k
                          /\ IF v.backends[k].res = "Ok"
                             THEN v.result.v = [res |-> "Ok", out |-> v.backends[k].out]
                             ELSE v.result.v = [res |-> "TokenExpired", out |-> None]

\* A step of a running call consults at most one backend, the next in order,
\* and a call that has returned consults none.
C30_ConsultsInOrder ==
    validation.pc = "loop" =>
        /\ validation'.backends = validation.backends
        /\ \/ validation'.consulted = validation.consulted
           \/ validation'.consulted =
                  Append(validation.consulted, Len(validation.consulted) + 1)

\* C30: AuthService.validate tries its backends in the configured order and
\* returns the context of the first backend that accepts the token; it returns
\* TokenExpired as soon as a backend reports TokenExpired, without consulting
\* later backends; any other backend error moves on to the next backend, and
\* if no backend accepts the token the result is InvalidCredentials.
C30_ValidateTriesBackendsInOrder ==
    []C30_ValidateInState /\ [][C30_ConsultsInOrder]_vars

\* A call returned TokenExpired from the second of three backends, the first
\* having failed with another error and the third one accepting the token.
C30_Witness ==
    /\ validation.pc = "done"
    /\ Len(validation.backends) = 3
    /\ validation.backends[1].res \in {"TokenNotFound", "Storage"}
    /\ validation.backends[2].res = "TokenExpired"
    /\ validation.backends[3].res = "Ok"
    /\ validation.consulted = <<1, 2>>
    /\ validation.result = Some([res |-> "TokenExpired", out |-> None])


\* ---------------------------------------------------------------------------
\* The secrets endpoints: response status against engine outcome.
\* ---------------------------------------------------------------------------

\* C31: for every secrets endpoint (GET, PUT and DELETE on /v1/secrets/*path)
\* the response status is determined by the engine outcome: InvalidPath gives
\* 400, VersionMismatch 409, NotFound 404, an absent secrets engine (sealed)
\* 503, and every other engine error 500.  Stated of every step that answers
\* an authenticated request on one of the three endpoints.
C31_StatusFollowsEngineOutcome ==
    [][LET op == last'.op
           documented(res) == CASE res = "InvalidPath" -> 400
                                [] res = "VersionMismatch" -> 409
                                [] res = "NotFound" -> 404
                                [] OTHER -> 500
       IN  (/\ op \in {"GET /v1/secrets", "PUT /v1/secrets", "DELETE /v1/secrets"}
            /\ Authenticated(storage, last'.token).status = 200)
           => IF ~secrets.some THEN last'.res = 503
              ELSE CASE op = "GET /v1/secrets" ->
                          LET r == get(secrets.v, db, now, RequestPath)
                          IN  r.res # "Ok" => last'.res = documented(r.res)
                     [] op = "DELETE /v1/secrets" ->
                          LET r == delete(db, now, RequestPath)
                          IN  r.res # "Ok" => last'.res = documented(r.res)
                     [] op = "PUT /v1/secrets" ->
                          \E req \in SecretPutRequests :
                              LET r == put(secrets.v, db, now, RequestPath, req.data,
                                           [ttl |-> None, cas |-> req.cas])
                              IN  /\ db' = r.db
                                  /\ r.res # "Ok" => last'.res = documented(r.res)]_vars


\* ---------------------------------------------------------------------------
\* Secrets engine: a put that does not run to its end.
\* ---------------------------------------------------------------------------

\* The put in flight stops between two of its storage statements: the process
\* crashes or the future is dropped at an await.  What it wrote stays.
PutInterrupt(c) ==
    /\ calls[c].pc \in {"record", "version"}
    /\ calls' = [calls EXCEPT ![c] = [pc |-> "idle"]]
    /\ UNCHANGED <<lockVars, validation, transitVars, mgr, storage, issued, last, serverVars, db, now>>

\* One caller whose puts run statement by statement and may be interrupted.
InterruptedNext ==
    \/ \E req \in CallerRequests(1) : PutBegin(1, req)
    \/ PutRecord(1)
    \/ PutVersion(1)
    \/ PutReturn(1)
    \/ PutInterrupt(1)
    \/ QuietDelete(<<"a">>)
    \/ QuietUndelete(<<"a">>)

SpecInterrupted == SecretsInit /\ [][InterruptedNext]_vars

\* C32: if a put is interrupted between any two of its storage statements, the
\* path is left either unchanged or with a new current version that get can
\* read: whenever no put is in flight, the current version of every record has
\* its version row, and get reads a record that is not deleted.
C32_InterruptedPutLeavesReadable ==
    calls = NoCalls =>
        \A r \in db.secrets :
            /\ r.version \in StoredVersions(db, r.path)
            /\ ~r.deleted_at.some => get(TestEngine, db, now, r.path).res = "Ok"


\* ---------------------------------------------------------------------------
\* Secrets engine: concurrent puts without check-and-set.
\* ---------------------------------------------------------------------------

\* Two callers that put on the same path without a cas option, again and
\* again, their storage calls interleaved.
RacingNext ==
    \/ \E c \in Callers : \E req \in CallerRequests(c) :
          req.options.cas = None /\ PutBegin(c, req)
    \/ \E c \in Callers : PutRecord(c)
    \/ \E c \in Callers : PutVersion(c)
    \/ \E c \in Callers : PutReturn(c)

SpecRacing == SecretsInit /\ [][RacingNext]_vars

\* C33: when several non-CAS puts to the same path run concurrently, once all
\* of them have returned the record's current_version equals the largest
\* stored version of the path and get returns the data of that version.
C33_CurrentIsLargestStored ==
    (\A c \in Callers : calls[c].pc \in {"idle", "done"}) =>
        \A r \in db.secrets :
            LET stored == StoredVersions(db, r.path)
                g == get(TestEngine, db, now, r.path)
            IN  /\ stored # {}
                /\ \A v \in stored : v <= r.version
                /\ r.version \in stored
                /\ g.res = "Ok"
                /\ g.out.v.version = r.version


\* ---------------------------------------------------------------------------
\* Seal manager: the status against the persisted records.
\* ---------------------------------------------------------------------------

\* C34: the seal manager's status is Sealed or Unsealed only if the vault has
\* been initialized (initialized_at persisted by initialize or
\* enable_dev_mode); in particular after seal() on an Uninitialized manager
\* the status is still Uninitialized, and while nothing is persisted
\* initialize does not fail with AlreadyInitialized.
C34_SealedOnlyIfInitialized ==
    /\ Status(mgr) \in {"Sealed", "Unsealed"} => storage.initialized_at.some
    /\ ~storage.initialized_at.some =>
          \A cfg \in Configs, key \in KeyDraws, token \in TokenDraws :
              \A polys \in Polys(cfg.threshold) :
                  initialize(mgr, storage, cfg, key, polys, token).res # "AlreadyInitialized"


\* ---------------------------------------------------------------------------
\* Seal manager: initialize on a storage whose put can fail.
\* ---------------------------------------------------------------------------

\* The records initialize stores, in the order of its storage.put calls.
InitializePuts ==
    <<"root_token_hash", "shamir_threshold", "shamir_total", "initialized_at",
      "master_key_hmac">>

\* SealManager::initialize when its storage.put number written + 1 returns an
\* error: the `?` returns the error, the records written before stay and the
\* manager's fields, assigned after the last put, are as before.
initialize_failing(m, st, cfg, key, polys, token, written) ==
    LET whole == initialize(m, st, cfg, key, polys, token)
    IN  IF whole.res # "Ok" THEN whole
        ELSE [mgr |-> m,
              storage |-> [f \in DOMAIN st |->
                              IF \E i \in 1 .. written : InitializePuts[i] = f
                              THEN whole.storage[f] ELSE st[f]],
              res |-> "Storage",
              out |-> None]

\* initialize fails with a storage error in one of its puts.
InitializeFails(cfg, key, polys, token, written) ==
    LET r == initialize_failing(mgr, storage, cfg, key, polys, token, written)
    IN  /\ r.res = "Storage"
        /\ mgr' = r.mgr
        /\ storage' = r.storage
        /\ last' = [op |-> "initialize", res |-> r.res, out |-> None]
        /\ UNCHANGED <<lockVars, validation, transitVars, issued, serverVars, engineVars>>

NextInitFault ==
    \/ Next
    \/ \E cfg \in Configs, key \in KeyDraws, token \in TokenDraws :
          \E polys \in Polys(cfg.threshold), written \in 0 .. (Len(InitializePuts) - 1) :
              InitializeFails(cfg, key, polys, token, written)

\* The seal manager on a storage whose put can fail during initialize.
SpecInitFault == Init /\ [][NextInitFault]_vars

\* C35: if initialize fails with a storage error after some of its records
\* were written, a seal manager restarted on the same data is either
\* Uninitialized or can be unsealed: it never comes up Sealed without a stored
\* master_key_hmac.
C35_RestartAfterFailedInitialize ==
    (last.op = "new" /\ Status(mgr) = "Sealed") =>
        /\ storage.master_key_hmac.some
        /\ mgr.expected_hmac.some


\* ---------------------------------------------------------------------------
\* Secrets engine: writes on a soft-deleted path.
\* ---------------------------------------------------------------------------

\* C36 as stated: put and rollback on a soft-deleted path fail with Deleted,
\* with or without a cas option and for every version asked for, and create
\* no version.
C36_DeletedPathAnswersDeleted ==
    \A r \in db.secrets :
        r.deleted_at.some =>
            /\ \A cas \in CasInputs :
                  LET p == put(TestEngine, db, now, r.path, "d1", [ttl |-> None, cas |-> cas])
                  IN  p.res = "Deleted" /\ p.db = db
            /\ \A version \in VersionInputs :
                  LET b == rollback(TestEngine, db, now, r.path, version)
                  IN  b.res = "Deleted" /\ b.db = db

\* The part of C36 that holds of every state: on a soft-deleted path put fails
\* with Deleted whatever its options; rollback fails with Deleted when the
\* version asked for is stored and has not expired, and with the error of
\* get_version (VersionNotFound, Expired) otherwise; neither writes anything;
\* and after undelete the next put returns current_version + 1.
C36_DeletedPathInState ==
    \A r \in db.secrets :
        r.deleted_at.some =>
            /\ \A cas \in CasInputs, ttl \in TtlInputs :
                  LET p == put(TestEngine, db, now, r.path, "d1", [ttl |-> ttl, cas |-> cas])
                  IN  p.res = "Deleted" /\ p.db = db
            /\ \A version \in VersionInputs :
                  LET b == rollback(TestEngine, db, now, r.path, version)
                      old == get_version(TestEngine, db, now, r.path, version)
                  IN  /\ b.res = (IF old.res = "Ok" THEN "Deleted" ELSE old.res)
                      /\ b.res \in {"Deleted", "VersionNotFound", "Expired"}
                      /\ b.db = db
            /\ LET u == undelete(db, now, r.path)
                   p == put(TestEngine, u.db, now, r.path, "d1", DefaultOptions)
               IN  /\ u.res = "Ok"
                   /\ p.res = "Ok"
                   /\ p.out = Some(r.version + 1)

\* The part of C36 about steps: while a record stays soft-deleted, its
\* current_version and its stored versions do not change.
C36_DeletedPathUnchanged ==
    \A r \in db.secrets :
        (/\ r.deleted_at.some
         /\ \E q \in db'.secrets : q.path = r.path /\ q.deleted_at.some)
        => /\ CurrentVersion(db', r.path) = r.version
           /\ {q \in db'.secret_versions : q.path = r.path}
                  = {q \in db.secret_versions : q.path = r.path}

\* C36: put and rollback on a soft-deleted path fail and create no version;
\* put fails with Deleted (with or without a cas option), rollback with
\* Deleted when the version asked for is readable and with VersionNotFound or
\* Expired when it is not; the record's current_version and the stored
\* versions are unchanged until undelete, after which the next put returns
\* current_version + 1.
C36_DeletedPathTakesNoWrite ==
    []C36_DeletedPathInState /\ [][C36_DeletedPathUnchanged]_vars

\* C36 witness: a rollback to a stored version was refused with Deleted on a
\* path that is soft-deleted at version 2.
C36_Witness ==
    /\ last.op = "rollback"
    /\ last.res = "Deleted"
    /\ \E r \in db.secrets :
          /\ r.path = <<"a">>
          /\ r.deleted_at.some
          /\ r.version = 2
          /\ StoredVersions(db, r.path) = {1, 2}


\* ---------------------------------------------------------------------------
\* The server: seal and unseal requests against the secrets engine slot.
\* ---------------------------------------------------------------------------

\* C37: in dev mode a POST /v1/sys/seal request leaves the server fully
\* operational: after its response the seal status is Unsealed and the
\* secrets engine is still installed, so that secrets requests are not
\* answered 503.
C37_DevModeSealKeepsServing ==
    (serving /\ mgr.dev_mode /\ last.op = "POST /v1/sys/seal") =>
        /\ Status(mgr) = "Unsealed"
        /\ secrets.some


\* C38: in non-dev mode, under any interleaving of concurrent seal and unseal
\* requests, whenever no seal or unseal request is in flight the secrets
\* engine slot is Some if and only if the seal status is Unsealed.
C38_EngineIffUnsealedWhenQuiet ==
    (serving /\ ~mgr.dev_mode /\ handlers = NoHandlers) =>
        (secrets.some <=> Status(mgr) = "Unsealed")


\* ---------------------------------------------------------------------------
\* The server: the handlers' use of the seal lock and the secrets lock.
\* Both are tokio RwLocks: any number of readers or one writer, waiters served
\* in the order they asked (a reader that asks after a waiting writer waits
\* behind it).  What a handler computes under a lock is left out; a handler is
\* its sequence of acquisitions and releases, one kind per path through it.
\* ---------------------------------------------------------------------------

Handlers == DOMAIN NoTasks

Acquire(lock, mode) == [op |-> "acquire", lock |-> lock, mode |-> mode]

Release(lock) == [op |-> "release", lock |-> lock]

\* The seal handler with clear_secrets_engine called under the seal lock and
\* the secrets handlers reading the seal status under the secrets lock.
Mut_Program_SecretsThenSeal(kind) ==
    CASE kind = "status" ->
            <<Acquire("seal", "read"), Release("seal")>>
      [] kind \in {"init", "unseal_progress", "seal_refused"} ->
            <<Acquire("seal", "write"), Release("seal")>>
      [] kind = "unseal_ensure_refused" ->
            <<Acquire("seal", "write"), Release("seal"),
              Acquire("seal", "read"), Release("seal")>>
      [] kind = "unseal" ->
            <<Acquire("seal", "write"), Release("seal"),
              Acquire("seal", "read"), Acquire("secrets", "write"),
              Release("secrets"), Release("seal")>>
      [] kind = "seal" ->
            <<Acquire("seal", "write"), Release("seal"),
              Acquire("secrets", "write"), Release("secrets")>>
      [] kind = "secrets" ->
            <<Acquire("secrets", "read"), Acquire("seal", "read"),
              Release("seal"), Release("secrets")>>

\* The lock operations of a handler, in program order:
\*   status                 health_handler, status_handler
\*   init                   init_handler
\*   unseal_progress        unseal_handler returning from its first block or
\*                          with the vault still sealed
\*   unseal_ensure_refused  unseal_handler whose ensure_secrets_engine finds
\*                          the vault not Unsealed
\*   unseal                 unseal_handler completing the unseal
\*   seal_refused           seal_handler on a vault that is not Unsealed
\*   seal                   seal_handler, then clear_secrets_engine
\*   secrets                the four secrets handlers
Program(kind) ==
    CASE kind = "status" ->
            <<Acquire("seal", "read"), Release("seal")>>
      [] kind \in {"init", "unseal_progress", "seal_refused"} ->
            <<Acquire("seal", "write"), Release("seal")>>
      [] kind = "unseal_ensure_refused" ->
            <<Acquire("seal", "write"), Release("seal"),
              Acquire("seal", "read"), Release("seal")>>
      [] kind = "unseal" ->
            <<Acquire("seal", "write"), Release("seal"),
              Acquire("seal", "read"), Acquire("secrets", "write"),
              Release("secrets"), Release("seal")>>
      [] kind = "seal" ->
            <<Acquire("seal", "write"), Release("seal"),
              Acquire("secrets", "write"), Release("secrets")>>
      [] kind = "secrets" ->
            <<Acquire("secrets", "read"), Release("secrets")>>

RequestKinds ==
    {"status", "init", "unseal_progress", "unseal_ensure_refused", "unseal",
     "seal_refused", "seal", "secrets"}

LockNames == DOMAIN FreeLocks

\* The instruction a running handler is at.
Instruction(t) == Program(t.kind)[t.pc]

\* The handler after its instruction at pc: the next one, or the return.
Advance(t) ==
    IF t.pc = Len(Program(t.kind)) THEN NoTasks[1]
    ELSE [t EXCEPT !.pc = @ + 1, !.waiting = FALSE]

\* RwLock: a waiter is granted the lock when it is first in line and the
\* holders allow its mode.
Grantable(l) ==
    /\ l.queue # <<>>
    /\ IF Head(l.queue).mode = "write" THEN l.holders = {}
       ELSE \A g \in l.holders : g.mode = "read"

LocksInit ==
    /\ NoVault
    /\ EngineUnused
    /\ serving = FALSE /\ secrets = None /\ handlers = NoHandlers
    /\ last = [op |-> "new", res |-> "Ok", out |-> None]

\* A request is routed to a handler.
HandlerBegin(h, kind) ==
    /\ tasks[h].pc = 0
    /\ tasks' = [tasks EXCEPT ![h] = [kind |-> kind, pc |-> 1, waiting |-> FALSE]]
    /\ UNCHANGED <<locks, validation, transitVars, mgr, storage, issued, last,
                   serverVars, engineVars>>

\* lock.read().await / lock.write().await: the handler joins the waiters.
HandlerAsk(h) ==
    /\ tasks[h].pc > 0
    /\ ~tasks[h].waiting
    /\ Instruction(tasks[h]).op = "acquire"
    /\ LET ins == Instruction(tasks[h])
       IN  locks' = [locks EXCEPT ![ins.lock].queue =
                        Append(@, [task |-> h, mode |-> ins.mode])]
    /\ tasks' = [tasks EXCEPT ![h].waiting = TRUE]
    /\ UNCHANGED <<validation, transitVars, mgr, storage, issued, last,
                   serverVars, engineVars>>

\* The lock is granted to its first waiter, which goes on.
LockGrant(name) ==
    /\ Grantable(locks[name])
    /\ LET g == Head(locks[name].queue)
       IN  /\ locks' = [locks EXCEPT ![name] =
                           [holders |-> @.holders \cup {g}, queue |-> Tail(@.queue)]]
           /\ tasks' = [tasks EXCEPT ![g.task] = Advance(@)]
    /\ UNCHANGED <<validation, transitVars, mgr, storage, issued, last,
                   serverVars, engineVars>>

\* A guard is dropped: the end of a block or of the handler, once the storage
\* calls made under the lock have returned.
HandlerRelease(h) ==
    /\ tasks[h].pc > 0
    /\ Instruction(tasks[h]).op = "release"
    /\ LET ins == Instruction(tasks[h])
       IN  locks' = [locks EXCEPT ![ins.lock].holders =
                        {g \in @ : g.task # h}]
    /\ tasks' = [tasks EXCEPT ![h] = Advance(@)]
    /\ UNCHANGED <<validation, transitVars, mgr, storage, issued, last,
                   serverVars, engineVars>>

LocksNext ==
    \/ \E h \in Handlers, kind \in RequestKinds : HandlerBegin(h, kind)
    \/ \E h \in Handlers : HandlerAsk(h)
    \/ \E name \in LockNames : LockGrant(name)
    \/ \E h \in Handlers : HandlerRelease(h)

SpecLocks == LocksInit /\ [][LocksNext]_vars

\* The tokio runtime polls every task that can make progress, and storage
\* calls return: a handler that can ask or release does so, and a lock that
\* can be granted is granted.
SpecLocksFair ==
    /\ SpecLocks
    /\ \A h \in Handlers : WF_vars(HandlerAsk(h)) /\ WF_vars(HandlerRelease(h))
    /\ \A name \in LockNames : WF_vars(LockGrant(name))

\* C39: the server's handlers cannot deadlock on the seal lock and the
\* secrets-engine lock: under any interleaving of init, unseal, seal, status
\* and secrets requests, every handler that is waiting for one of the two
\* locks eventually acquires it, given that storage calls return.
C39_WaitersAcquire ==
    \A h \in Handlers, name \in LockNames :
        (\E i \in 1 .. Len(locks[name].queue) : locks[name].queue[i].task = h)
            ~> (\E g \in locks[name].holders : g.task = h)

\* C39 witness: a handler holds the seal lock for reading and waits for the
\* secrets lock, which a secrets handler holds, while a third handler waits
\* for the seal lock for writing.
C39_Witness ==
    \E h1, h2, h3 \in Handlers :
        /\ [task |-> h1, mode |-> "read"] \in locks.seal.holders
        /\ locks.secrets.queue = <<[task |-> h1, mode |-> "write"]>>
        /\ [task |-> h2, mode |-> "read"] \in locks.secrets.holders
        /\ locks.seal.queue = <<[task |-> h3, mode |-> "write"]>>


\* ------------------------------ create_key, statement by statement

\* A create_key call that has returned.
Created(name, res, out) == [pc |-> "created", name |-> name, res |-> res, out |-> out]

\* TransitEngine::create_key up to its first write: validate_name, the
\* SELECT, and the wrapping of the generated key material.
create_read(e, d, name, config, raw_key, nonce) ==
    IF ~validate_name(name) THEN Created(name, "InvalidKeyName", None)
    ELSE IF SelectKey(d, name).some THEN Created(name, "KeyExists", None)
    ELSE [pc |-> "insert_key", name |-> name,
          key |-> [name |-> name, latest_version |-> 1,
                   min_encryption_version |-> 1, min_decryption_version |-> 1,
                   supports_encryption |-> config.supports_encryption,
                   supports_decryption |-> config.supports_decryption,
                   deletion_allowed |-> config.deletion_allowed],
          key_material |-> encrypt_key_material(e, name, 1, raw_key, nonce)]

\* TransitEngine::create_key, INSERT INTO transit_keys.
create_insert_key(d, c) ==
    LET ins == InsertKey(d, c.key)
    IN  IF ins.ok
        THEN [db |-> ins.db, call |-> [c EXCEPT !.pc = "insert_version"]]
        ELSE [db |-> d, call |-> Created(c.name, "Storage", None)]

\* TransitEngine::create_key, INSERT INTO transit_key_versions and return.
create_insert_version(d, c) ==
    LET ins == InsertKeyVersion(d,
                  [name |-> c.name, version |-> 1, key_material |-> c.key_material])
    IN  IF ins.ok
        THEN [db |-> ins.db, call |-> Created(c.name, "Ok", Some(c.key))]
        ELSE [db |-> d, call |-> Created(c.name, "Storage", None)]

\* A caller enters create_key.
CreateBegin(c, name, config, raw_key) ==
    /\ rotations[c].pc = "idle"
    /\ rotations' = [rotations EXCEPT ![c] =
                        create_read(TestTransit, transit, name, config, raw_key, WrapNonce)]
    /\ UNCHANGED <<lockVars, validation, mgr, storage, issued, last, serverVars, db, now, calls,
                   transit, held>>

\* The caller's INSERT into transit_keys.
CreateInsertKey(c) ==
    /\ rotations[c].pc = "insert_key"
    /\ LET r == create_insert_key(transit, rotations[c])
       IN  /\ transit' = r.db
           /\ rotations' = [rotations EXCEPT ![c] = r.call]
    /\ UNCHANGED <<lockVars, validation, mgr, storage, issued, last, serverVars, db, now, calls, held>>

\* The caller's INSERT into transit_key_versions.
CreateInsertVersion(c) ==
    /\ rotations[c].pc = "insert_version"
    /\ LET r == create_insert_version(transit, rotations[c])
       IN  /\ transit' = r.db
           /\ rotations' = [rotations EXCEPT ![c] = r.call]
    /\ UNCHANGED <<lockVars, validation, mgr, storage, issued, last, serverVars, db, now, calls, held>>

\* create_key returns to the caller.
CreateReturn(c) ==
    /\ rotations[c].pc = "created"
    /\ last' = [op |-> "create_key", res |-> rotations[c].res,
                out |-> rotations[c].out, name |-> rotations[c].name]
    /\ rotations' = [rotations EXCEPT ![c] = [pc |-> "idle"]]
    /\ UNCHANGED <<lockVars, validation, mgr, storage, issued, serverVars, db, now, calls,
                   transit, held>>

\* The call stops at one of its storage awaits: the future is dropped or the
\* process ends.  What the statements before it wrote stays.
TransitInterrupt(c) ==
    /\ rotations[c].pc \in {"insert_version", "update"}
    /\ rotations' = [rotations EXCEPT ![c] = [pc |-> "idle"]]
    /\ UNCHANGED <<lockVars, validation, mgr, storage, issued, last, serverVars, db, now, calls,
                   transit, held>>

\* Two callers create and rotate one key, their calls interleaved at the
\* storage calls and possibly interrupted there, while a third encrypts.
CreationsNext ==
    \/ \E c \in Rotators, raw_key \in RawKeys :
          CreateBegin(c, <<"a">>, DefaultKeyConfig, raw_key)
    \/ \E c \in Rotators : CreateInsertKey(c)
    \/ \E c \in Rotators : CreateInsertVersion(c)
    \/ \E c \in Rotators : CreateReturn(c)
    \/ \E c \in Rotators : TransitInterrupt(c)
    \/ \E c \in Rotators : RotateBegin(c, <<"a">>)
    \/ \E c \in Rotators, raw_key \in RawKeys : RotateInsert(c, raw_key)
    \/ \E c \in Rotators : RotateUpdate(c)
    \/ \E c \in Rotators : RotateReturn(c)
    \/ \E nonce \in Nonces : TransitEncrypt(<<"a">>, nonce)

SpecCreations == TransitInit /\ [][CreationsNext]_vars

\* C40: for every transit key that has a metadata row, every version in
\* 1..latest_version has a stored key-version row, in every reachable state,
\* the states between the storage statements of create_key and rotate_key
\* and after an interruption between them included, so encrypt never fails
\* with VersionNotFound.
C40_EveryVersionUpToLatestStored ==
    /\ \A key \in transit.transit_keys :
          \A v \in 1 .. key.latest_version :
              SelectKeyVersion(transit, key.name, v).some
    /\ last.op = "encrypt" => last.res # "VersionNotFound"

=============================================================================
